---------------------------- MODULE Spec2Model ----------------------------
(***************************************************************************)
(* Model of the gradio-pianoroll backend: the note / timeline data model   *)
(* of data_models.py (validation, validate-and-warn, clean) and the widget *)
(* boundary of pianoroll.py.                                               *)
(*                                                                         *)
(* Python values are tagged records [k |-> kind, v |-> payload]:           *)
(*   absent  the key is not in the map (a map is a record over its known   *)
(*           keys, a missing key holds Absent)                             *)
(*   none    None                                                          *)
(*   int     an int, v its value                                           *)
(*   float   a float, v its value in half units (v = 1 is 0.5)             *)
(*   str     a str                                                         *)
(*   bool    a bool                                                        *)
(*   list    a list, v a sequence of values                                *)
(*   dict    a plain map, v a record of values                             *)
(*   obj     a dataclass instance, v the record of its fields              *)
(* A call either returns or raises: [raised, exc, value].                  *)
(***************************************************************************)
EXTENDS Integers, Sequences, FiniteSets, TLC

VARIABLES
    pc,          \* position of the caller: which operation has run
    note,        \* the note handed to validate_note
    noteResult,  \* outcome of validate_note(note)
    data,        \* the timeline handed to the timeline operations
    validation,  \* outcome of PianoRollValidator.validate(data), whose errors
                 \* validate_piano_roll_data returns
    returned,    \* outcome of validate_and_warn(data, context)
    warnings,    \* the warnings emitted so far (warnings.warn)
    cleaned,     \* outcome of clean_piano_roll_data(data)
    recleaned,   \* outcome of clean_piano_roll_data(cleaned)
    backend_data, \* the widget's PianoRollBackendData
    posted,      \* outcome of PianoRoll.postprocess(data)
    decoded,  \* outcome of PianoRollData.from_dict(data)
    ensured, \* outcome of ensure_note_ids(data)
    clock,  \* the millisecond clock generate_note_id reads
    generatedIds, \* the draws and ids of the generate_note_id calls so far
    noteObj,  \* the Note instance under edit
    record,  \* outcome of noteObj.to_dict()
    context,  \* the timing context handed to Note.from_dict
    rebuilt,  \* outcome of Note.from_dict(record, context)
    twin,  \* a second boundary record, equal to note but for its derived timing fields
    rebuiltTwin, \* outcome of Note.from_dict(twin, context)
    twinRecord, \* twin.to_dict() of the note decoded from the twin record
    args, \* the arguments of the last mutator call on noteObj
    quantity,  \* a quantity in pixels handed to the timing conversions
    timing,  \* the result of calculate_all_timing_data
    single,  \* the results of the single-purpose conversions, by key
    retimed, \* pixels_to_flicks of the quantity under a second tempo
    calls, \* the calls made on the backend data object so far, in order
    pianoRoll,  \* the PianoRoll component, its value
    previousNotes  \* the notes of the value as they were before the last add_note

vars == <<pc, note, noteResult, data, validation, returned,
          warnings, cleaned, recleaned, backend_data, posted,
          decoded, ensured,
          clock, generatedIds,
          noteObj, record, context, rebuilt, twin, rebuiltTwin,
          twinRecord,
          args,
          quantity, timing, single, retimed,
          calls,
          pianoRoll, previousNotes>>

---------------------------------------------------------------------------
(* Python values *)

Absent == [k |-> "absent", v |-> 0]
None == [k |-> "none", v |-> 0]
PyInt(n) == [k |-> "int", v |-> n]
\* a float is held exactly, as a fraction <<numerator, denominator>> in lowest
\* terms; PyFloat(h) is the float of h halves (PyFloat(3) is 1.5)
RECURSIVE GCD(_, _)
GCD(a, b) == IF b = 0 THEN (IF a < 0 THEN -a ELSE a) ELSE GCD(b, a % b)

Abs(n) == IF n < 0 THEN -n ELSE n

Frac(n, d) ==
    IF d < 0 THEN <<(-n) \div GCD(Abs(n), Abs(d)), (-d) \div GCD(Abs(n), Abs(d))>>
    ELSE <<n \div GCD(Abs(n), Abs(d)), d \div GCD(Abs(n), Abs(d))>>

PyRatio(q) == [k |-> "float", v |-> q]
PyFloat(h) == PyRatio(Frac(h, 2))
PyStr(s) == [k |-> "str", v |-> s]
PyBool(b) == [k |-> "bool", v |-> b]
PyList(s) == [k |-> "list", v |-> s]
PyDict(f) == [k |-> "dict", v |-> f]
PyObj(f) == [k |-> "obj", v |-> f]

\* key in map
Has(m, key) == m.v[key] # Absent

\* isinstance(x, (int, float)) and isinstance(x, int)
IsNumber(x) == x.k \in {"int", "float"}
IsInt(x) == x.k = "int"

\* the fraction a number stands for
ToFrac(x) == IF x.k = "int" THEN <<x.v, 1>> ELSE x.v

\* the place of a number among the integers, in half units, so that ints and
\* floats compare with int limits: 2n for the integer n, and the odd number
\* 2n + 1 for every value strictly between n and n + 1
Half(x) ==
    IF ToFrac(x)[1] % ToFrac(x)[2] = 0
    THEN 2 * (ToFrac(x)[1] \div ToFrac(x)[2])
    ELSE 2 * (ToFrac(x)[1] \div ToFrac(x)[2]) + 1

\* an ordering comparison of x with an int raises TypeError unless x is a number
Orderable(x) == IsNumber(x)

Returned(val) == [raised |-> FALSE, exc |-> "", value |-> val]
Raised(e) == [raised |-> TRUE, exc |-> e, value |-> <<>>]
NotRun == [raised |-> FALSE, exc |-> "not run", value |-> <<>>]

\* F(x) with x evaluated once: a Python name is bound to the value of its
\* expression, which is not evaluated again at each use
Bind(x, F(_)) == CHOOSE y \in {F(val) : val \in {x}} : TRUE

\* errors.append(msg) under a condition
When(cond, msg) == IF cond THEN <<msg>> ELSE <<>>

RECURSIVE Flatten(_)
Flatten(ss) == IF ss = <<>> THEN <<>> ELSE Head(ss) \o Flatten(Tail(ss))

---------------------------------------------------------------------------
(* data_models.py: the record shapes *)

RequiredNoteFields == <<"id", "start", "duration", "pitch", "velocity">>

OptionalNoteFields ==
    {"startFlicks", "durationFlicks", "startSeconds", "durationSeconds",
     "endSeconds", "startBeats", "durationBeats", "startTicks",
     "durationTicks", "startSample", "durationSamples", "lyric", "phoneme"}

NoteDataFields ==
    {RequiredNoteFields[i] : i \in DOMAIN RequiredNoteFields} \cup OptionalNoteFields

\* dataclasses.asdict: dataclass instances become plain maps, recursively
\* through lists and maps; every other value is copied.
RECURSIVE asdict(_)
asdict(x) ==
    CASE x.k = "obj" -> PyDict([f \in DOMAIN x.v |-> asdict(x.v[f])])
      [] x.k = "dict" -> PyDict([f \in DOMAIN x.v |-> asdict(x.v[f])])
      [] x.k = "list" -> PyList([i \in DOMAIN x.v |-> asdict(x.v[i])])
      [] OTHER -> x

---------------------------------------------------------------------------
(* data_models.py: NoteValidator *)

\* NoteValidator.to_dict: asdict of a dataclass, dict(note) of anything else;
\* dict() of a value that is no map raises.
NoteValidator_to_dict(n) ==
    CASE n.k = "obj" -> Returned(asdict(n))
      [] n.k = "dict" -> Returned(n)
      [] OTHER -> Raised("TypeError")

MissingMsg(field) == "Required field '" \o field \o "' is missing"

NoteValidator_validate_required_fields(n) ==
    Flatten([i \in DOMAIN RequiredNoteFields |->
        When(~Has(n, RequiredNoteFields[i]), MissingMsg(RequiredNoteFields[i]))])

\* validate_types reading note.get("pitch") without the "pitch" in note guard
NoteValidator_validate_types_unguarded(n) ==
    When(Has(n, "start") /\ ~IsNumber(n.v["start"]), "'start' must be a number")
    \o When(Has(n, "duration") /\ ~IsNumber(n.v["duration"]),
            "'duration' must be a number")
    \o When(~IsInt(n.v["pitch"]), "'pitch' must be an integer")
    \o When(Has(n, "velocity") /\ ~IsInt(n.v["velocity"]),
            "'velocity' must be an integer")

NoteValidator_validate_types(n) ==
    When(Has(n, "start") /\ ~IsNumber(n.v["start"]), "'start' must be a number")
    \o When(Has(n, "duration") /\ ~IsNumber(n.v["duration"]),
            "'duration' must be a number")
    \o When(Has(n, "pitch") /\ ~IsInt(n.v["pitch"]), "'pitch' must be an integer")
    \o When(Has(n, "velocity") /\ ~IsInt(n.v["velocity"]),
            "'velocity' must be an integer")

\* The comparisons are evaluated on whatever the field holds: comparing None,
\* a str, a list or a map with a number raises TypeError and ends the call.
NoteValidator_validate_range(n) ==
    IF \E f \in {"pitch", "velocity", "start", "duration"} :
           Has(n, f) /\ ~Orderable(n.v[f])
    THEN Raised("TypeError")
    ELSE Returned(
        When(Has(n, "pitch")
               /\ ~(0 <= Half(n.v["pitch"]) /\ Half(n.v["pitch"]) <= 2 * 127),
             "'pitch' must be between 0 and 127")
        \o When(Has(n, "velocity")
               /\ ~(0 <= Half(n.v["velocity"]) /\ Half(n.v["velocity"]) <= 2 * 127),
             "'velocity' must be between 0 and 127")
        \o When(Has(n, "start") /\ Half(n.v["start"]) < 0,
             "'start' must be non-negative")
        \o When(Has(n, "duration") /\ Half(n.v["duration"]) <= 0,
             "'duration' must be positive"))

\* NoteValidator.validate: the three lists in order; ValidationResult carries
\* is_valid = (no errors) and the errors.
\* ValidationResult.failure(errors) if errors else ValidationResult.success()
ValidationResult(errors) ==
    [is_valid |-> errors = <<>>, errors |-> errors, warnings |-> <<>>]

NoteValidator_validate(n) ==
    Bind(NoteValidator_to_dict(n), LAMBDA d :
        IF d.raised THEN d
        ELSE Bind(NoteValidator_validate_range(d.value), LAMBDA rng :
            IF rng.raised THEN rng
            ELSE Returned(ValidationResult(
                     NoteValidator_validate_required_fields(d.value)
                     \o NoteValidator_validate_types(d.value)
                     \o rng.value))))

\* the argument of NoteValidator.validate after the call: to_dict hands the
\* validators a new map (dict(note) or asdict(note)) and no statement stores
\* into the argument or into the new map
NoteValidator_validate_argument(n) == n

validate_note(n) ==
    Bind(NoteValidator_validate(n), LAMBDA r :
        IF r.raised THEN r ELSE Returned(r.value.errors))

---------------------------------------------------------------------------
(* data_models.py: PianoRollValidator *)

PianoRollRequiredFields ==
    <<"notes", "tempo", "timeSignature", "editMode", "snapSetting">>

SettingFields == {"pixelsPerBeat", "sampleRate", "ppqn"}

OptionalFields ==
    <<"audio_data", "curve_data", "segment_data", "line_data",
      "use_backend_audio", "waveform_data">>

PianoRollDataFields ==
    {PianoRollRequiredFields[i] : i \in DOMAIN PianoRollRequiredFields}
    \cup SettingFields
    \cup {OptionalFields[i] : i \in DOMAIN OptionalFields}

\* PianoRollValidator.to_dict
PianoRollValidator_to_dict(d) ==
    CASE d.k = "obj" -> Returned(asdict(d))
      [] d.k = "dict" -> Returned(d)
      [] OTHER -> Raised("TypeError")

PianoRollValidator_validate_required_fields(d) ==
    Flatten([i \in DOMAIN PianoRollRequiredFields |->
        When(~Has(d, PianoRollRequiredFields[i]),
             MissingMsg(PianoRollRequiredFields[i]))])

\* f"Note {i}: {error}", i the 0-based position of the note
NotePrefix(i) == "Note " \o ToString(i) \o ": "

PrefixAll(i, errs) == [j \in DOMAIN errs |-> NotePrefix(i) \o errs[j]]

\* PianoRollValidator.validate_notes: the loop over enumerate(data["notes"]);
\* an exception of NoteValidator.validate leaves the loop and the call.
validate_notes(d) ==
    IF ~Has(d, "notes") THEN Returned(<<>>)
    ELSE IF d.v["notes"].k # "list" THEN Returned(<<"'notes' must be a list">>)
    ELSE Bind([i \in DOMAIN d.v["notes"].v |->
                  NoteValidator_validate(d.v["notes"].v[i])], LAMBDA each :
             IF \E i \in DOMAIN each : each[i].raised
             THEN each[CHOOSE i \in DOMAIN each : each[i].raised
                          /\ \A j \in DOMAIN each : each[j].raised => i <= j]
             ELSE Returned(Flatten([i \in DOMAIN each |->
                                       PrefixAll(i - 1, each[i].value.errors)])))

\* validate_tempo without the "<= 0" test
validate_tempo_any_number(d) ==
    When(Has(d, "tempo") /\ ~IsNumber(d.v["tempo"]),
         "'tempo' must be a positive number")

validate_tempo(d) ==
    When(Has(d, "tempo") /\ (~IsNumber(d.v["tempo"]) \/ Half(d.v["tempo"]) <= 0),
         "'tempo' must be a positive number")

validate_time_signature(d) ==
    IF ~Has(d, "timeSignature") THEN <<>>
    ELSE LET raw == d.v["timeSignature"]
             ts == IF raw.k = "obj" THEN asdict(raw) ELSE raw
         IN
         IF ts.k # "dict" THEN <<"'timeSignature' must be a dictionary">>
         ELSE When(~Has(ts, "numerator") \/ ~IsInt(ts.v["numerator"])
                       \/ ts.v["numerator"].v <= 0,
                   "'timeSignature.numerator' must be a positive integer")
              \o When(~Has(ts, "denominator") \/ ~IsInt(ts.v["denominator"])
                       \/ ts.v["denominator"].v <= 0,
                   "'timeSignature.denominator' must be a positive integer")

PianoRollValidator_validate(d) ==
    Bind(PianoRollValidator_to_dict(d), LAMBDA dd :
        IF dd.raised THEN dd
        ELSE Bind(validate_notes(dd.value), LAMBDA ns :
            IF ns.raised THEN ns
            ELSE Returned(ValidationResult(
                     PianoRollValidator_validate_required_fields(dd.value)
                     \o ns.value
                     \o validate_tempo(dd.value)
                     \o validate_time_signature(dd.value)))))

\* the to_dict result stored back into the argument
PianoRollValidator_validate_argument_converted(d) ==
    IF d.k = "obj" THEN asdict(d) ELSE d

\* the argument of PianoRollValidator.validate after the call: the validators
\* read the new map of to_dict, each note goes through NoteValidator.validate,
\* and the time signature is converted into a local name only
PianoRollValidator_validate_argument(d) ==
    IF d.k = "dict" /\ Has(d, "notes") /\ d.v["notes"].k = "list"
    THEN PyDict([d.v EXCEPT !["notes"] =
             PyList([i \in DOMAIN d.v["notes"].v |->
                         NoteValidator_validate_argument(d.v["notes"].v[i])])])
    ELSE d

validate_piano_roll_data(d) ==
    Bind(PianoRollValidator_validate(d), LAMBDA r :
        IF r.raised THEN r ELSE Returned(r.value.errors))

\* the empty map {}
EmptyDict == PyDict([f \in PianoRollDataFields |-> Absent])

\* "\n".join(f"  - {error}" for error in errors)
RECURSIVE JoinErrors(_)
JoinErrors(errs) ==
    IF errs = <<>> THEN ""
    ELSE "  - " \o Head(errs)
         \o (IF Tail(errs) = <<>> THEN "" ELSE "\n" \o JoinErrors(Tail(errs)))

WarningMessage(ctx, errs) == ctx \o " validation failed:\n" \o JoinErrors(errs)

\* validate_and_warn: the value returned and the warnings it emitted
validate_and_warn(d, ctx) ==
    Bind(validate_piano_roll_data(d), LAMBDA errors :
        IF errors.raised
        THEN [raised |-> TRUE, exc |-> errors.exc, value |-> None, warned |-> <<>>]
        ELSE IF errors.value # <<>>
        THEN [raised |-> FALSE, exc |-> "", value |-> EmptyDict,
              warned |-> <<[category |-> "UserWarning",
                            message |-> WarningMessage(ctx, errors.value)]>>]
        ELSE [raised |-> FALSE, exc |-> "", value |-> d, warned |-> <<>>])

---------------------------------------------------------------------------
(* data_models.py: from_dict, create_default_piano_roll_data and
   clean_piano_roll_data *)

\* data.get(key): the default left out
Get_without_default(m, key, default) == IF Has(m, key) THEN m.v[key] ELSE None

\* data.get(key, default); data.get(key) is Get(data, key, None)
Get(m, key, default) == IF Has(m, key) THEN m.v[key] ELSE default

TimeSignatureFields == {"numerator", "denominator"}

TimeSignatureMap(num, den) ==
    PyDict([f \in TimeSignatureFields |-> IF f = "numerator" THEN num ELSE den])

\* TimeSignatureData.from_dict with the two keys exchanged
TimeSignatureData_from_dict_swapped(ts) ==
    PyObj([f \in TimeSignatureFields |->
        IF f = "numerator" THEN Get(ts, "denominator", PyInt(4))
        ELSE Get(ts, "numerator", PyInt(4))])

TimeSignatureData_from_dict(ts) ==
    PyObj([f \in TimeSignatureFields |-> Get(ts, f, PyInt(4))])

\* NoteData.from_dict: the known fields, None where the map has none
NoteData_from_dict(n) == PyObj([f \in NoteDataFields |-> Get(n, f, None)])

LineDataPointFields == {"x", "y"}

LineDataPointData_from_dict(pt) ==
    PyObj([f \in LineDataPointFields |-> Get(pt, f, PyFloat(0))])

LineLayerFields ==
    {"color", "lineWidth", "yMin", "yMax", "position", "renderMode", "visible",
     "opacity", "dataType", "unit", "originalRange", "data"}

LineLayerConfigData_from_dict(layer) ==
    PyObj([f \in LineLayerFields |->
        IF f = "data"
        THEN PyList([i \in DOMAIN Get(layer, "data", PyList(<<>>)).v |->
                 LineDataPointData_from_dict(Get(layer, "data", PyList(<<>>)).v[i])])
        ELSE Get(layer, f, None)])

\* the names under which a line layer may be stored
LayerNames == {"f0"}

\* PianoRollData.from_dict; reading .get or iterating a value that is no map
\* or list raises
PianoRollData_from_dict(d) ==
    Bind(<<Get(d, "notes", PyList(<<>>)),
           Get(d, "timeSignature", TimeSignatureMap(Absent, Absent)),
           Get(d, "line_data", None)>>, LAMBDA src :
        IF src[1].k # "list" THEN Raised("TypeError")
        ELSE IF \E i \in DOMAIN src[1].v : src[1].v[i].k \notin {"obj", "dict"}
        THEN Raised("AttributeError")
        ELSE IF src[2].k \notin {"obj", "dict"} THEN Raised("AttributeError")
        ELSE IF src[3].k \notin {"none", "dict"} THEN Raised("AttributeError")
        ELSE Returned(PyObj([f \in PianoRollDataFields |->
            CASE f = "notes" ->
                   PyList([i \in DOMAIN src[1].v |->
                       IF src[1].v[i].k = "obj" THEN src[1].v[i]
                       ELSE NoteData_from_dict(src[1].v[i])])
              [] f = "timeSignature" ->
                   IF src[2].k = "obj" THEN src[2]
                   ELSE TimeSignatureData_from_dict(src[2])
              [] f = "line_data" ->
                   IF src[3] = None THEN None
                   ELSE PyDict([name \in DOMAIN src[3].v |->
                            CASE src[3].v[name] = Absent -> Absent
                              [] src[3].v[name].k = "obj" -> src[3].v[name]
                              [] OTHER -> LineLayerConfigData_from_dict(src[3].v[name])])
              [] f = "tempo" -> Get(d, "tempo", PyInt(120))
              [] f = "editMode" -> Get(d, "editMode", PyStr("select"))
              [] f = "snapSetting" -> Get(d, "snapSetting", PyStr("1/4"))
              [] OTHER -> Get(d, f, None)])))

create_default_piano_roll_data ==
    PyObj([f \in PianoRollDataFields |->
        CASE f = "notes" -> PyList(<<>>)
          [] f = "tempo" -> PyInt(120)
          [] f = "timeSignature" ->
               PyObj([g \in TimeSignatureFields |-> PyInt(4)])
          [] f = "editMode" -> PyStr("select")
          [] f = "snapSetting" -> PyStr("1/4")
          [] f = "pixelsPerBeat" -> PyInt(80)
          [] f = "sampleRate" -> PyInt(44100)
          [] f = "ppqn" -> PyInt(480)
          [] OTHER -> None])

\* `not data`: None, a map without keys, an empty list or str, 0 and False
Falsy(x) ==
    CASE x.k = "none" -> TRUE
      [] x.k = "dict" -> \A f \in DOMAIN x.v : x.v[f] = Absent
      [] x.k = "list" -> x.v = <<>>
      [] x.k = "str" -> x.v = ""
      [] x.k = "int" -> x.v = 0
      [] x.k = "float" -> x.v = 0
      [] x.k = "bool" -> ~x.v
      [] OTHER -> FALSE

OptionalFieldSet == {OptionalFields[i] : i \in DOMAIN OptionalFields}

\* the map `cleaned` that clean_piano_roll_data builds from data's keys
CleanedMap(d) ==
    PyDict([f \in PianoRollDataFields |->
        CASE f = "notes" -> Get(d, "notes", PyList(<<>>))
          [] f = "tempo" -> Get(d, "tempo", PyInt(120))
          [] f = "timeSignature" ->
               Get(d, "timeSignature", TimeSignatureMap(PyInt(4), PyInt(4)))
          [] f = "editMode" -> Get(d, "editMode", PyStr("select"))
          [] f = "snapSetting" -> Get(d, "snapSetting", PyStr("1/4"))
          [] f = "pixelsPerBeat" -> Get(d, "pixelsPerBeat", PyInt(80))
          [] f = "sampleRate" -> Get(d, "sampleRate", PyInt(44100))
          [] f = "ppqn" -> Get(d, "ppqn", PyInt(480))
          [] OTHER -> IF Has(d, f) /\ d.v[f] # None THEN d.v[f] ELSE Absent])

clean_piano_roll_data(d) ==
    IF Falsy(d) THEN Returned(create_default_piano_roll_data)
    ELSE IF d.k \notin {"obj", "dict"} THEN Raised("AttributeError")
    ELSE PianoRollData_from_dict(CleanedMap(IF d.k = "obj" THEN asdict(d) ELSE d))

---------------------------------------------------------------------------
(* data_models.py: ensure_note_ids *)

\* a note takes a new id only when it has no id at all
NeedsId_when_absent(n) ==
    IF n.k = "obj" THEN n.v["id"] = None ELSE ~Has(n, "id")

\* `not getattr(note, "id", None)` and `"id" not in note or not note["id"]`
NeedsId(n) ==
    IF n.k = "obj" THEN Falsy(n.v["id"])
    ELSE ~Has(n, "id") \/ Falsy(n.v["id"])

\* note.id = value and note["id"] = value
SetId(n, id) == [k |-> n.k, v |-> [n.v EXCEPT !["id"] = id]]

\* ensure_note_ids(data): the notes are changed in place and data itself is
\* returned; ids[i] is what generate_note_id returns when called for note i
ensure_note_ids(d, ids) ==
    Bind(IF d.k = "obj" THEN d.v["notes"]
         ELSE IF d.k = "dict" THEN Get(d, "notes", None)
         ELSE None,
         LAMBDA notes :
             IF notes = None THEN Returned(d)
             ELSE IF notes.k # "list" THEN Raised("TypeError")
             ELSE IF \E i \in DOMAIN notes.v : notes.v[i].k \notin {"dict", "obj"}
             THEN Raised("TypeError")
             ELSE Returned([k |-> d.k,
                            v |-> [d.v EXCEPT !["notes"] =
                                PyList([i \in DOMAIN notes.v |->
                                    IF NeedsId(notes.v[i])
                                    THEN SetId(notes.v[i], ids[i])
                                    ELSE notes.v[i]])]]))

---------------------------------------------------------------------------
(* timing_utils.py: the conversions from pixels, on exact fractions *)

FlicksPerSecond == 705600000

\* the five base-36 characters generate_note_id may draw
Suffixes == {"aaaaa", "bbbbb"}

\* an id made of the timestamp alone
generate_note_id_timestamp_only(timestamp, suffix) ==
    PyStr("note-" \o ToString(timestamp))

\* generate_note_id() called at the millisecond `timestamp` and drawing `suffix`
generate_note_id(timestamp, suffix) ==
    PyStr("note-" \o ToString(timestamp) \o "-" \o suffix)

\* the ids generate_note_id may return
GeneratedIds == {generate_note_id(1, "aaaaa"), generate_note_id(2, "bbbbb")}

\* products and quotients of fractions in lowest terms, reduced before the
\* multiplication
FracMul(a, b) ==
    Frac((a[1] \div GCD(Abs(a[1]), Abs(b[2]))) * (b[1] \div GCD(Abs(b[1]), Abs(a[2]))),
         (a[2] \div GCD(Abs(b[1]), Abs(a[2]))) * (b[2] \div GCD(Abs(a[1]), Abs(b[2]))))

FracDiv(a, b) == FracMul(a, Frac(b[2], b[1]))

FracAdd(a, b) == Frac(a[1] * b[2] + b[1] * a[2], a[2] * b[2])

\* round(x): to the nearest whole number
Trunc_rounding(q) == (2 * q[1] + q[2]) \div (2 * q[2])

\* int(x): the fractional part is cut off, toward zero
Trunc(q) == IF q[1] >= 0 THEN q[1] \div q[2] ELSE -((-q[1]) \div q[2])

pixels_to_seconds(pixels, pixels_per_beat, tempo) ==
    FracDiv(FracMul(pixels, <<60, 1>>), FracMul(pixels_per_beat, tempo))

\* flicks that count one second per beat, whatever the tempo
pixels_to_flicks_per_beat(pixels, pixels_per_beat, tempo) ==
    FracMul(FracDiv(pixels, pixels_per_beat), <<FlicksPerSecond, 1>>)

pixels_to_flicks(pixels, pixels_per_beat, tempo) ==
    FracMul(pixels_to_seconds(pixels, pixels_per_beat, tempo), <<FlicksPerSecond, 1>>)

pixels_to_beats(pixels, pixels_per_beat) == FracDiv(pixels, pixels_per_beat)

pixels_to_ticks(pixels, pixels_per_beat, ppqn) ==
    Trunc(FracMul(pixels_to_beats(pixels, pixels_per_beat), ppqn))

pixels_to_samples(pixels, pixels_per_beat, tempo, sample_rate) ==
    Trunc(FracMul(pixels_to_seconds(pixels, pixels_per_beat, tempo), sample_rate))

\* the keys of the map calculate_all_timing_data returns
TimingKeys == {"seconds", "beats", "flicks", "ticks", "samples"}

\* a compute-all that cuts the beats to a whole number before scaling to ticks
calculate_all_timing_data_whole_beats(pixels, pixels_per_beat, tempo, sample_rate, ppqn) ==
    PyDict([key \in TimingKeys |->
        CASE key = "beats" -> PyRatio(FracDiv(pixels, pixels_per_beat))
          [] key = "seconds" ->
               PyRatio(FracDiv(FracMul(FracDiv(pixels, pixels_per_beat), <<60, 1>>), tempo))
          [] key = "flicks" ->
               PyRatio(FracMul(FracDiv(FracMul(FracDiv(pixels, pixels_per_beat), <<60, 1>>), tempo),
                               <<FlicksPerSecond, 1>>))
          [] key = "ticks" ->
               PyInt(Trunc(FracDiv(pixels, pixels_per_beat)) * Trunc(ppqn))
          [] key = "samples" ->
               PyInt(Trunc(FracMul(FracDiv(FracMul(FracDiv(pixels, pixels_per_beat), <<60, 1>>), tempo),
                                   sample_rate)))])

\* calculate_all_timing_data: the five values of one pixel quantity, the
\* seconds taken from the beats (beats * 60 / tempo)
calculate_all_timing_data(pixels, pixels_per_beat, tempo, sample_rate, ppqn) ==
    PyDict([key \in TimingKeys |->
        CASE key = "beats" -> PyRatio(FracDiv(pixels, pixels_per_beat))
          [] key = "seconds" ->
               PyRatio(FracDiv(FracMul(FracDiv(pixels, pixels_per_beat), <<60, 1>>), tempo))
          [] key = "flicks" ->
               PyRatio(FracMul(FracDiv(FracMul(FracDiv(pixels, pixels_per_beat), <<60, 1>>), tempo),
                               <<FlicksPerSecond, 1>>))
          [] key = "ticks" ->
               PyInt(Trunc(FracMul(FracDiv(pixels, pixels_per_beat), ppqn)))
          [] key = "samples" ->
               PyInt(Trunc(FracMul(FracDiv(FracMul(FracDiv(pixels, pixels_per_beat), <<60, 1>>), tempo),
                                   sample_rate)))])

---------------------------------------------------------------------------
(* note.py: Note *)

NoteFields ==
    {"pitch", "velocity", "lyric", "start_pixels", "duration_pixels",
     "pixels_per_beat", "tempo", "sample_rate", "ppqn", "id"}

\* Note(...) without __post_init__: the id stays as given
Note_without_post_init(pitch, velocity, lyric, start_pixels, duration_pixels, pixels_per_beat, tempo, sample_rate, ppqn, id, generated) ==
    PyObj([f \in NoteFields |->
        CASE f = "pitch" -> pitch
          [] f = "velocity" -> velocity
          [] f = "lyric" -> lyric
          [] f = "start_pixels" -> start_pixels
          [] f = "duration_pixels" -> duration_pixels
          [] f = "pixels_per_beat" -> pixels_per_beat
          [] f = "tempo" -> tempo
          [] f = "sample_rate" -> sample_rate
          [] f = "ppqn" -> ppqn
          [] f = "id" -> id])

\* Note(...) with __post_init__: a note built without id takes a generated one
Note(pitch, velocity, lyric, start_pixels, duration_pixels, pixels_per_beat, tempo, sample_rate, ppqn, id, generated) ==
    PyObj([f \in NoteFields |->
        CASE f = "pitch" -> pitch
          [] f = "velocity" -> velocity
          [] f = "lyric" -> lyric
          [] f = "start_pixels" -> start_pixels
          [] f = "duration_pixels" -> duration_pixels
          [] f = "pixels_per_beat" -> pixels_per_beat
          [] f = "tempo" -> tempo
          [] f = "sample_rate" -> sample_rate
          [] f = "ppqn" -> ppqn
          [] f = "id" -> IF id = None THEN generated ELSE id])

\* a context update in which an argument that is None puts the default back
update_context_resetting(n, pixels_per_beat, tempo, sample_rate, ppqn) ==
    PyObj([n.v EXCEPT
        !["pixels_per_beat"] = IF pixels_per_beat # None THEN pixels_per_beat ELSE PyFloat(160),
        !["tempo"] = IF tempo # None THEN tempo ELSE PyFloat(240),
        !["sample_rate"] = IF sample_rate # None THEN sample_rate ELSE PyInt(44100),
        !["ppqn"] = IF ppqn # None THEN ppqn ELSE PyInt(480)])

\* Note.update_context: an argument that is None leaves the value as it is
update_context(n, pixels_per_beat, tempo, sample_rate, ppqn) ==
    PyObj([n.v EXCEPT
        !["pixels_per_beat"] = IF pixels_per_beat # None THEN pixels_per_beat ELSE @,
        !["tempo"] = IF tempo # None THEN tempo ELSE @,
        !["sample_rate"] = IF sample_rate # None THEN sample_rate ELSE @,
        !["ppqn"] = IF ppqn # None THEN ppqn ELSE @])

move_to(n, start_pixels) == PyObj([n.v EXCEPT !["start_pixels"] = start_pixels])

resize(n, duration_pixels) == PyObj([n.v EXCEPT !["duration_pixels"] = duration_pixels])

Min(a, b) == IF a < b THEN a ELSE b

Max(a, b) == IF a > b THEN a ELSE b

\* a transposition that adds the semitones and does not clamp
transpose_unclamped(n, semitones) ==
    PyObj([n.v EXCEPT !["pitch"] = PyInt(@.v + semitones)])

\* self.pitch = max(0, min(127, self.pitch + semitones))
transpose(n, semitones) ==
    PyObj([n.v EXCEPT !["pitch"] = PyInt(Max(0, Min(127, @.v + semitones)))])

\* the timing properties computed under the default context, whatever the
\* context of the note
TimingOf_default_context(n, f) ==
    CASE f \in {"startFlicks", "durationFlicks"} ->
           PyRatio(pixels_to_flicks(
               ToFrac(n.v[IF f = "startFlicks" THEN "start_pixels" ELSE "duration_pixels"]),
               <<80, 1>>, <<120, 1>>))
      [] f \in {"startSeconds", "durationSeconds"} ->
           PyRatio(pixels_to_seconds(
               ToFrac(n.v[IF f = "startSeconds" THEN "start_pixels" ELSE "duration_pixels"]),
               <<80, 1>>, <<120, 1>>))
      [] f = "endSeconds" ->
           PyRatio(FracAdd(
               pixels_to_seconds(ToFrac(n.v["start_pixels"]), <<80, 1>>, <<120, 1>>),
               pixels_to_seconds(ToFrac(n.v["duration_pixels"]), <<80, 1>>, <<120, 1>>)))
      [] f \in {"startBeats", "durationBeats"} ->
           PyRatio(pixels_to_beats(
               ToFrac(n.v[IF f = "startBeats" THEN "start_pixels" ELSE "duration_pixels"]),
               <<80, 1>>))
      [] f \in {"startTicks", "durationTicks"} ->
           PyInt(pixels_to_ticks(
               ToFrac(n.v[IF f = "startTicks" THEN "start_pixels" ELSE "duration_pixels"]),
               <<80, 1>>, <<480, 1>>))
      [] f \in {"startSample", "durationSamples"} ->
           PyInt(pixels_to_samples(
               ToFrac(n.v[IF f = "startSample" THEN "start_pixels" ELSE "duration_pixels"]),
               <<80, 1>>, <<120, 1>>, <<44100, 1>>))

\* the timing properties of a note whose pixel values and context are numbers
\* and whose pixels_per_beat and tempo are not zero
TimingOf(n, f) ==
    CASE f = "startFlicks" ->
           PyRatio(pixels_to_flicks(ToFrac(n.v["start_pixels"]),
                       ToFrac(n.v["pixels_per_beat"]), ToFrac(n.v["tempo"])))
      [] f = "durationFlicks" ->
           PyRatio(pixels_to_flicks(ToFrac(n.v["duration_pixels"]),
                       ToFrac(n.v["pixels_per_beat"]), ToFrac(n.v["tempo"])))
      [] f = "startSeconds" ->
           PyRatio(pixels_to_seconds(ToFrac(n.v["start_pixels"]),
                       ToFrac(n.v["pixels_per_beat"]), ToFrac(n.v["tempo"])))
      [] f = "durationSeconds" ->
           PyRatio(pixels_to_seconds(ToFrac(n.v["duration_pixels"]),
                       ToFrac(n.v["pixels_per_beat"]), ToFrac(n.v["tempo"])))
      [] f = "endSeconds" ->
           PyRatio(FracAdd(
               pixels_to_seconds(ToFrac(n.v["start_pixels"]),
                   ToFrac(n.v["pixels_per_beat"]), ToFrac(n.v["tempo"])),
               pixels_to_seconds(ToFrac(n.v["duration_pixels"]),
                   ToFrac(n.v["pixels_per_beat"]), ToFrac(n.v["tempo"]))))
      [] f = "startBeats" ->
           PyRatio(pixels_to_beats(ToFrac(n.v["start_pixels"]),
                       ToFrac(n.v["pixels_per_beat"])))
      [] f = "durationBeats" ->
           PyRatio(pixels_to_beats(ToFrac(n.v["duration_pixels"]),
                       ToFrac(n.v["pixels_per_beat"])))
      [] f = "startTicks" ->
           PyInt(pixels_to_ticks(ToFrac(n.v["start_pixels"]),
                     ToFrac(n.v["pixels_per_beat"]), ToFrac(n.v["ppqn"])))
      [] f = "durationTicks" ->
           PyInt(pixels_to_ticks(ToFrac(n.v["duration_pixels"]),
                     ToFrac(n.v["pixels_per_beat"]), ToFrac(n.v["ppqn"])))
      [] f = "startSample" ->
           PyInt(pixels_to_samples(ToFrac(n.v["start_pixels"]),
                     ToFrac(n.v["pixels_per_beat"]), ToFrac(n.v["tempo"]),
                     ToFrac(n.v["sample_rate"])))
      [] f = "durationSamples" ->
           PyInt(pixels_to_samples(ToFrac(n.v["duration_pixels"]),
                     ToFrac(n.v["pixels_per_beat"]), ToFrac(n.v["tempo"]),
                     ToFrac(n.v["sample_rate"])))

TimingFields ==
    {"startFlicks", "durationFlicks", "startSeconds", "durationSeconds",
     "endSeconds", "startBeats", "durationBeats", "startTicks",
     "durationTicks", "startSample", "durationSamples"}

\* Note.to_dict; the arithmetic raises on a value that is no number and on a
\* zero pixels_per_beat or tempo, in the order the entries are computed
Note_to_dict(n) ==
    IF \E f \in {"start_pixels", "pixels_per_beat", "tempo"} : ~IsNumber(n.v[f])
    THEN Raised("TypeError")
    ELSE IF ToFrac(n.v["pixels_per_beat"])[1] = 0 \/ ToFrac(n.v["tempo"])[1] = 0
    THEN Raised("ZeroDivisionError")
    ELSE IF \E f \in {"duration_pixels", "ppqn", "sample_rate"} : ~IsNumber(n.v[f])
    THEN Raised("TypeError")
    ELSE Returned(PyDict([f \in NoteDataFields |->
        CASE f = "id" -> n.v["id"]
          [] f = "start" -> n.v["start_pixels"]
          [] f = "duration" -> n.v["duration_pixels"]
          [] f \in TimingFields -> TimingOf(n, f)
          [] f = "pitch" -> n.v["pitch"]
          [] f = "velocity" -> n.v["velocity"]
          [] f = "lyric" -> n.v["lyric"]
          [] OTHER -> Absent]))

\* a decoding that takes the start from the record's startSeconds when the
\* record carries one
Note_from_dict_trusting(d, pixels_per_beat, tempo, sample_rate, ppqn, generated) ==
    IF d.k # "dict" THEN Raised("AttributeError")
    ELSE IF \E f \in {"start", "duration", "pitch"} : ~Has(d, f)
    THEN Raised("KeyError")
    ELSE Returned(Note(d.v["pitch"], Get(d, "velocity", PyInt(100)),
                       Get(d, "lyric", PyStr("")),
                       Get(d, "startSeconds", d.v["start"]), d.v["duration"],
                       pixels_per_beat, tempo, sample_rate, ppqn,
                       Get(d, "id", None), generated))

\* Note.from_dict: data["start"], data["duration"] and data["pitch"] are
\* subscripted, the other keys are read with get
Note_from_dict(d, pixels_per_beat, tempo, sample_rate, ppqn, generated) ==
    IF d.k # "dict" THEN Raised("AttributeError")
    ELSE IF \E f \in {"start", "duration", "pitch"} : ~Has(d, f)
    THEN Raised("KeyError")
    ELSE Returned(Note(d.v["pitch"], Get(d, "velocity", PyInt(100)),
                       Get(d, "lyric", PyStr("")), d.v["start"], d.v["duration"],
                       pixels_per_beat, tempo, sample_rate, ppqn,
                       Get(d, "id", None), generated))

---------------------------------------------------------------------------
(* backend_data.py: PianoRollBackendData *)

\* the names under which a curve may be stored
CurveNames == {"pitch"}

BackendFields == {"audio_data", "curve_data", "segment_data", "use_backend_audio"}

\* PianoRollBackendData(): the field defaults
PianoRollBackendData ==
    [audio_data |-> None,
     curve_data |-> PyDict([name \in CurveNames |-> Absent]),
     segment_data |-> PyList(<<>>),
     use_backend_audio |-> PyBool(FALSE)]

set_audio(b, audio) == [b EXCEPT !.audio_data = audio]

\* an add_curve that merges the keys of the new curve into the stored one
add_curve_merging(b, name, curve) ==
    [b EXCEPT !.curve_data = PyDict([b.curve_data.v EXCEPT ![name] =
        IF @ # Absent /\ @.k = "dict" /\ curve.k = "dict"
        THEN PyDict([f \in DOMAIN curve.v |->
                 IF curve.v[f] # Absent THEN curve.v[f] ELSE @.v[f]])
        ELSE curve])]

add_curve(b, name, curve) ==
    [b EXCEPT !.curve_data = PyDict([b.curve_data.v EXCEPT ![name] = curve])]

remove_curve(b, name) ==
    [b EXCEPT !.curve_data = PyDict([b.curve_data.v EXCEPT ![name] = Absent])]

\* an add_segment that skips a segment already in the list
add_segment_deduplicating(b, segment) ==
    IF \E i \in DOMAIN b.segment_data.v : b.segment_data.v[i] = segment
    THEN b
    ELSE [b EXCEPT !.segment_data = PyList(Append(b.segment_data.v, segment))]

add_segment(b, segment) ==
    [b EXCEPT !.segment_data = PyList(Append(b.segment_data.v, segment))]

clear_segments(b) == [b EXCEPT !.segment_data = PyList(<<>>)]

enable_backend_audio(b, enable) == [b EXCEPT !.use_backend_audio = PyBool(enable)]

PianoRollBackendData_to_dict(b) == [f \in BackendFields |-> b[f]]

\* has_data that also counts the use_backend_audio flag
has_data_or_flag(b) ==
    \/ b.audio_data # None
    \/ ~Falsy(b.curve_data)
    \/ ~Falsy(b.segment_data)
    \/ b.use_backend_audio.v

has_data(b) ==
    \/ b.audio_data # None
    \/ ~Falsy(b.curve_data)
    \/ ~Falsy(b.segment_data)

---------------------------------------------------------------------------
(* pianoroll.py: PianoRoll *)

\* the three notes of the default value; the lyrics are Korean words in the
\* source and are written here in Latin letters
DefaultNotes ==
    <<[pitch |-> 60, velocity |-> 100, lyric |-> "annyeong", start_pixels |-> 80, duration_pixels |-> 80],
      [pitch |-> 64, velocity |-> 90, lyric |-> "haseyo", start_pixels |-> 160, duration_pixels |-> 160],
      [pitch |-> 67, velocity |-> 95, lyric |-> "bangawoyo", start_pixels |-> 320, duration_pixels |-> 80]>>

\* ids[i] is the id generate_note_id returns for the i-th note that needs one
_create_default_value(ids) ==
    PyDict([f \in PianoRollDataFields |->
        CASE f = "notes" ->
               PyList([i \in DOMAIN DefaultNotes |->
                   Note_to_dict(Note(PyInt(DefaultNotes[i].pitch),
                                     PyInt(DefaultNotes[i].velocity),
                                     PyStr(DefaultNotes[i].lyric),
                                     PyInt(DefaultNotes[i].start_pixels),
                                     PyInt(DefaultNotes[i].duration_pixels),
                                     PyInt(80), PyInt(120), PyInt(44100), PyInt(480),
                                     None, ids[i])).value])
          [] f = "tempo" -> PyInt(120)
          [] f = "timeSignature" -> TimeSignatureMap(PyInt(4), PyInt(4))
          [] f = "editMode" -> PyStr("select")
          [] f = "snapSetting" -> PyStr("1/4")
          [] f = "pixelsPerBeat" -> PyInt(80)
          [] f = "sampleRate" -> PyInt(44100)
          [] f = "ppqn" -> PyInt(480)
          [] OTHER -> Absent])

\* one turn of the loop of _normalize_value: Note.from_dict(...).to_dict()
NormalizeNote(note_data, value, generated) ==
    Bind(Note_from_dict(note_data,
                        Get(value, "pixelsPerBeat", PyInt(80)),
                        Get(value, "tempo", PyInt(120)),
                        Get(value, "sampleRate", PyInt(44100)),
                        Get(value, "ppqn", PyInt(480)),
                        generated),
         LAMBDA r : IF r.raised THEN r ELSE Note_to_dict(r.value))

_normalize_value(value, ids) ==
    IF Falsy(value) THEN Returned(_create_default_value(ids))
    ELSE IF value.k # "dict" THEN Raised("AttributeError")
    ELSE IF ~Has(value, "notes") \/ Falsy(value.v["notes"]) THEN Returned(value)
    ELSE IF value.v["notes"].k # "list" THEN Raised("TypeError")
    ELSE Bind([i \in DOMAIN value.v["notes"].v |->
                   NormalizeNote(value.v["notes"].v[i], value, ids[i])],
              LAMBDA rs :
                  IF \E i \in DOMAIN rs : rs[i].raised
                  THEN rs[CHOOSE i \in DOMAIN rs :
                              rs[i].raised /\ \A j \in 1..(i - 1) : ~rs[j].raised]
                  ELSE Returned(PyDict([value.v EXCEPT
                           !["notes"] = PyList([i \in DOMAIN rs |-> rs[i].value])])))

\* value.update(backend_dict)
update(value, backend_dict) ==
    PyDict([f \in DOMAIN value.v |->
        IF f \in DOMAIN backend_dict THEN backend_dict[f] ELSE value.v[f]])

\* a postprocess that attaches the backend keys whether or not there is data
postprocess_always_attaching(value, backend, ids) ==
    Bind(_normalize_value(IF Falsy(value) THEN _create_default_value(ids) ELSE value, ids),
         LAMBDA r :
             IF r.raised THEN r
             ELSE Returned(update(r.value, PianoRollBackendData_to_dict(backend))))

postprocess(value, backend, ids) ==
    Bind(_normalize_value(IF Falsy(value) THEN _create_default_value(ids) ELSE value, ids),
         LAMBDA r :
             IF r.raised THEN r
             ELSE IF has_data(backend)
             THEN Returned(update(r.value, PianoRollBackendData_to_dict(backend)))
             ELSE r)

\* PianoRoll(value): self.value after the constructor
PianoRoll(value, ids) ==
    IF value = None THEN Returned(_create_default_value(ids))
    ELSE _normalize_value(value, ids)

\* add_note: the value afterwards and what the call returns or raises
add_note(value, pitch, start_pixels, duration_pixels, velocity, lyric, generated) ==
    Bind(Note(pitch, velocity, lyric, start_pixels, duration_pixels,
              Get(value, "pixelsPerBeat", PyInt(80)), Get(value, "tempo", PyInt(120)),
              Get(value, "sampleRate", PyInt(44100)), Get(value, "ppqn", PyInt(480)),
              None, generated),
         LAMBDA n :
             Bind(IF Has(value, "notes") THEN value
                  ELSE PyDict([value.v EXCEPT !["notes"] = PyList(<<>>)]),
                  LAMBDA v :
                      Bind(Note_to_dict(n),
                           LAMBDA r :
                               IF r.raised THEN [value |-> v, outcome |-> r]
                               ELSE IF v.v["notes"].k # "list"
                               THEN [value |-> v, outcome |-> Raised("AttributeError")]
                               ELSE [value |-> PyDict([v.v EXCEPT !["notes"] =
                                                  PyList(Append(@.v, r.value))]),
                                     outcome |-> Returned(n.v["id"])])))

\* a remove_note that removes the first note carrying the id only
remove_note_first_only(value, note_id) ==
    IF ~Has(value, "notes") THEN [value |-> value, outcome |-> Returned(PyBool(FALSE))]
    ELSE IF value.v["notes"].k # "list" THEN [value |-> value, outcome |-> Raised("TypeError")]
    ELSE IF \E i \in DOMAIN value.v["notes"].v : value.v["notes"].v[i].k # "dict"
    THEN [value |-> value, outcome |-> Raised("AttributeError")]
    ELSE Bind(value.v["notes"].v,
              LAMBDA ns :
                  IF \A i \in DOMAIN ns : Get(ns[i], "id", None) # note_id
                  THEN [value |-> value, outcome |-> Returned(PyBool(FALSE))]
                  ELSE Bind(CHOOSE i \in DOMAIN ns :
                                /\ Get(ns[i], "id", None) = note_id
                                /\ \A j \in 1..(i - 1) : Get(ns[j], "id", None) # note_id,
                            LAMBDA at :
                                [value |-> PyDict([value.v EXCEPT !["notes"] =
                                     PyList(SubSeq(ns, 1, at - 1) \o SubSeq(ns, at + 1, Len(ns)))]),
                                 outcome |-> Returned(PyBool(TRUE))]))

\* remove_note: the value afterwards and what the call returns or raises
remove_note(value, note_id) ==
    IF ~Has(value, "notes") THEN [value |-> value, outcome |-> Returned(PyBool(FALSE))]
    ELSE IF value.v["notes"].k # "list" THEN [value |-> value, outcome |-> Raised("TypeError")]
    ELSE IF \E i \in DOMAIN value.v["notes"].v : value.v["notes"].v[i].k # "dict"
    THEN [value |-> value, outcome |-> Raised("AttributeError")]
    ELSE Bind(SelectSeq(value.v["notes"].v, LAMBDA n : Get(n, "id", None) # note_id),
              LAMBDA kept :
                  [value |-> PyDict([value.v EXCEPT !["notes"] = PyList(kept)]),
                   outcome |-> Returned(PyBool(Len(kept) < Len(value.v["notes"].v)))])

---------------------------------------------------------------------------
(* The inputs *)

\* longest notes list handed to the timeline operations
MaxNotes == 2

NoteMap(id, start, duration, pitch, velocity) ==
    PyDict([f \in NoteDataFields |->
        CASE f = "id" -> id
          [] f = "start" -> start
          [] f = "duration" -> duration
          [] f = "pitch" -> pitch
          [] f = "velocity" -> velocity
          [] OTHER -> Absent])

\* a dataclass instance holding a map's values: an unset field is None
AsObj(m) == PyObj([f \in DOMAIN m.v |-> IF m.v[f] = Absent THEN None ELSE m.v[f]])

DictNotes ==
    {NoteMap(id, start, duration, pitch, velocity) :
        id \in {Absent, PyStr("x")},
        start \in {Absent, None, PyStr("a"), PyInt(-5), PyInt(0), PyFloat(1)},
        duration \in {Absent, None, PyInt(0), PyInt(100), PyFloat(1)},
        pitch \in {Absent, None, PyStr("C4"), PyInt(-1), PyInt(60), PyInt(128),
                   PyFloat(121)},
        velocity \in {Absent, None, PyInt(-1), PyInt(100), PyFloat(255)}}

\* note maps and NoteData instances
NoteInputs == DictNotes \cup {AsObj(n) : n \in DictNotes}

ValidNote == NoteMap(PyStr("n1"), PyInt(0), PyInt(100), PyInt(60), PyInt(100))
RangeNote == NoteMap(PyStr("x"), PyInt(-5), PyInt(0), PyInt(128), PyInt(-1))
PartialNote == NoteMap(PyStr("n2"), Absent, Absent, PyInt(200), Absent)
NullNote == NoteMap(PyStr("n4"), PyInt(0), PyInt(100), None, PyInt(100))

UnnamedNote ==
    NoteMap(Absent, PyInt(80), PyFloat(81), PyInt(64), Absent)

\* the notes a timeline is built from
SampleNotes == {ValidNote, RangeNote, PartialNote, NullNote}

RECURSIVE SeqsUpTo(_, _)
SeqsUpTo(S, n) ==
    IF n = 0 THEN {<<>>}
    ELSE LET shorter == SeqsUpTo(S, n - 1) IN
         shorter \cup {Append(s, x) : s \in shorter, x \in S}

TimeSignatureInputs ==
    {TimeSignatureMap(num, den) :
        num \in {Absent, PyInt(0), PyInt(4)}, den \in {PyInt(4), PyFloat(8)}}
    \cup {Absent, None, AsObj(TimeSignatureMap(PyInt(3), PyInt(4)))}

TimelineMap(notes, tempo, ts, editMode, snapSetting) ==
    PyDict([f \in PianoRollDataFields |->
        CASE f = "notes" -> notes
          [] f = "tempo" -> tempo
          [] f = "timeSignature" -> ts
          [] f = "editMode" -> editMode
          [] f = "snapSetting" -> snapSetting
          [] OTHER -> Absent])

\* timeline maps for validation: any of the required fields may be missing
\* or hold a value of the wrong type or range
ValidationMaps ==
    {TimelineMap(notes, tempo, ts, editMode, snapSetting) :
        notes \in {Absent, None} \cup {PyList(s) : s \in SeqsUpTo(SampleNotes, MaxNotes)},
        tempo \in {Absent, None, PyInt(0), PyInt(120), PyFloat(1)},
        ts \in TimeSignatureInputs,
        editMode \in {Absent, PyStr("select")},
        snapSetting \in {Absent, PyStr("1/4")}}

\* a PianoRollData instance built from the values of a map, its notes
\* NoteData instances and its time signature a TimeSignatureData
AsPianoRollData(m) ==
    PyObj([f \in DOMAIN m.v |->
        CASE m.v[f] = Absent -> None
          [] f = "notes" /\ m.v[f].k = "list" ->
               PyList([i \in DOMAIN m.v[f].v |-> AsObj(m.v[f].v[i])])
          [] f = "timeSignature" /\ m.v[f].k = "dict" -> AsObj(m.v[f])
          [] OTHER -> m.v[f]])

ValidationInputs == ValidationMaps \cup {AsPianoRollData(m) : m \in ValidationMaps}

Contexts == {"Piano roll data", "Upload"}

---------------------------------------------------------------------------
(* Note validation: validate_note on one note *)

InitNote ==
    /\ pc = "start"
    /\ note \in NoteInputs
    /\ noteResult = NotRun
    /\ data = EmptyDict
    /\ validation = NotRun
    /\ returned = NotRun
    /\ warnings = <<>>
    /\ cleaned = NotRun
    /\ recleaned = NotRun
    /\ backend_data = PianoRollBackendData
    /\ posted = NotRun
    /\ decoded = NotRun
    /\ ensured = NotRun
    /\ clock = 1
    /\ generatedIds = <<>>
    /\ noteObj = None
    /\ record = NotRun
    /\ context = None
    /\ rebuilt = NotRun
    /\ twin = None
    /\ rebuiltTwin = NotRun
    /\ twinRecord = NotRun
    /\ args = <<>>
    /\ quantity = None
    /\ timing = NotRun
    /\ single = NotRun
    /\ retimed = NotRun
    /\ calls = <<>>
    /\ pianoRoll = None
    /\ previousNotes = None

ValidateNote ==
    /\ pc = "start"
    /\ noteResult' = validate_note(note)
    /\ note' = NoteValidator_validate_argument(note)
    /\ pc' = "validate_note"
    /\ UNCHANGED <<data, validation, returned, warnings, cleaned, recleaned, backend_data, posted, decoded, ensured, clock, generatedIds, noteObj, record, context, rebuilt, twin, rebuiltTwin, twinRecord, args, quantity, timing, single, retimed, calls, pianoRoll, previousNotes>>

NextNote == ValidateNote

SpecNote == InitNote /\ [][NextNote]_vars

---------------------------------------------------------------------------
(* Timeline validation: validate_piano_roll_data and validate_and_warn *)

Init ==
    /\ pc = "start"
    /\ note = ValidNote
    /\ noteResult = NotRun
    /\ data \in ValidationInputs
    /\ validation = NotRun
    /\ returned = NotRun
    /\ warnings = <<>>
    /\ cleaned = NotRun
    /\ recleaned = NotRun
    /\ backend_data = PianoRollBackendData
    /\ posted = NotRun
    /\ decoded = NotRun
    /\ ensured = NotRun
    /\ clock = 1
    /\ generatedIds = <<>>
    /\ noteObj = None
    /\ record = NotRun
    /\ context = None
    /\ rebuilt = NotRun
    /\ twin = None
    /\ rebuiltTwin = NotRun
    /\ twinRecord = NotRun
    /\ args = <<>>
    /\ quantity = None
    /\ timing = NotRun
    /\ single = NotRun
    /\ retimed = NotRun
    /\ calls = <<>>
    /\ pianoRoll = None
    /\ previousNotes = None

ValidatePianoRollData ==
    /\ pc = "start"
    /\ validation' = PianoRollValidator_validate(data)
    /\ data' = PianoRollValidator_validate_argument(data)
    /\ pc' = "validate_piano_roll_data"
    /\ UNCHANGED <<note, noteResult, returned, warnings, cleaned, recleaned, backend_data, posted, decoded, ensured, clock, generatedIds, noteObj, record, context, rebuilt, twin, rebuiltTwin, twinRecord, args, quantity, timing, single, retimed, calls, pianoRoll, previousNotes>>

ValidateAndWarn ==
    /\ pc = "start"
    /\ \E ctx \in Contexts : \E r \in {validate_and_warn(data, ctx)} :
         /\ returned' = [raised |-> r.raised, exc |-> r.exc, value |-> r.value]
         /\ warnings' = warnings \o r.warned
    /\ pc' = "validate_and_warn"
    /\ UNCHANGED <<note, noteResult, data, validation, cleaned, recleaned, backend_data, posted, decoded, ensured, clock, generatedIds, noteObj, record, context, rebuilt, twin, rebuiltTwin, twinRecord, args, quantity, timing, single, retimed, calls, pianoRoll, previousNotes>>

Next == ValidatePianoRollData \/ ValidateAndWarn

Spec == Init /\ [][Next]_vars

---------------------------------------------------------------------------
(* Validation as seen by its caller: a note and a timeline, each validated
   from the start state *)

SampleTimelines ==
    {TimelineMap(notes, tempo, ts, PyStr("select"), PyStr("1/4")) :
        notes \in {None} \cup {PyList(ns) : ns \in SeqsUpTo(SampleNotes, MaxNotes)},
        tempo \in {PyInt(120), None},
        ts \in {TimeSignatureMap(PyInt(4), PyInt(4)), TimeSignatureMap(Absent, PyInt(0))}}

InitReadOnly ==
    /\ pc = "start"
    /\ note \in SampleNotes \cup {AsObj(n) : n \in SampleNotes}
    /\ noteResult = NotRun
    /\ data \in SampleTimelines \cup {AsPianoRollData(m) : m \in SampleTimelines}
    /\ validation = NotRun
    /\ returned = NotRun
    /\ warnings = <<>>
    /\ cleaned = NotRun
    /\ recleaned = NotRun
    /\ backend_data = PianoRollBackendData
    /\ posted = NotRun
    /\ decoded = NotRun
    /\ ensured = NotRun
    /\ clock = 1
    /\ generatedIds = <<>>
    /\ noteObj = None
    /\ record = NotRun
    /\ context = None
    /\ rebuilt = NotRun
    /\ twin = None
    /\ rebuiltTwin = NotRun
    /\ twinRecord = NotRun
    /\ args = <<>>
    /\ quantity = None
    /\ timing = NotRun
    /\ single = NotRun
    /\ retimed = NotRun
    /\ calls = <<>>
    /\ pianoRoll = None
    /\ previousNotes = None

NextReadOnly == ValidateNote \/ ValidatePianoRollData

SpecReadOnly == InitReadOnly /\ [][NextReadOnly]_vars

---------------------------------------------------------------------------
(* Normalisation: inputs of clean_piano_roll_data in the shapes that cross the
   boundary, as raw maps and as PianoRollData instances *)

CleanNotes == {ValidNote, PartialNote}

LayerMap ==
    PyDict([name \in LayerNames |->
        PyDict([f \in LineLayerFields |->
            CASE f = "color" -> PyStr("red")
              [] f = "lineWidth" -> PyInt(2)
              [] f = "data" ->
                   PyList(<<PyDict([g \in LineDataPointFields |->
                               IF g = "x" THEN PyFloat(3) ELSE Absent])>>)
              [] OTHER -> Absent])])

SegmentMap ==
    PyDict([f \in {"start", "end"} |-> IF f = "start" THEN PyInt(0) ELSE PyInt(1)])

\* the core and setting keys of a payload, each absent, null or given
SettingRecords ==
    [notes : {Absent} \cup {PyList(ns) : ns \in SeqsUpTo(CleanNotes, MaxNotes)},
     tempo : {Absent, None, PyInt(140)},
     timeSignature : {Absent, TimeSignatureMap(PyInt(3), PyInt(4)),
                      TimeSignatureMap(Absent, PyInt(8))},
     editMode : {Absent, PyStr("draw")},
     snapSetting : {Absent, PyStr("1/8")},
     pixelsPerBeat : {Absent, None, PyInt(100)},
     sampleRate : {Absent, PyInt(48000)},
     ppqn : {Absent, PyInt(960)}]

\* the optional keys of a payload, each absent, null or given
OptionalRecords ==
    [notes : {Absent, PyList(<<ValidNote>>)},
     tempo : {Absent, PyInt(140)},
     audio_data : {Absent, None, PyStr("data:audio/wav;base64,AAAA")},
     curve_data : {Absent, None, PyDict([name \in LayerNames |-> PyList(<<PyInt(1)>>)])},
     segment_data : {Absent, PyList(<<>>), PyList(<<SegmentMap>>)},
     line_data : {Absent, None, LayerMap},
     use_backend_audio : {Absent, None, PyBool(FALSE)},
     waveform_data : {Absent, PyList(<<PyDict([g \in {"x"} |-> PyInt(0)])>>)}]

PayloadMap(r) ==
    PyDict([f \in PianoRollDataFields |-> IF f \in DOMAIN r THEN r[f] ELSE Absent])

CleanMaps == {PayloadMap(r) : r \in SettingRecords \cup OptionalRecords}

\* a PianoRollData instance is built from a map by PianoRollData.from_dict
CleanInputs ==
    {None} \cup CleanMaps \cup {PianoRollData_from_dict(m).value : m \in CleanMaps}

InitClean ==
    /\ pc = "start"
    /\ note = ValidNote
    /\ noteResult = NotRun
    /\ data \in CleanInputs
    /\ validation = NotRun
    /\ returned = NotRun
    /\ warnings = <<>>
    /\ cleaned = NotRun
    /\ recleaned = NotRun
    /\ backend_data = PianoRollBackendData
    /\ posted = NotRun
    /\ decoded = NotRun
    /\ ensured = NotRun
    /\ clock = 1
    /\ generatedIds = <<>>
    /\ noteObj = None
    /\ record = NotRun
    /\ context = None
    /\ rebuilt = NotRun
    /\ twin = None
    /\ rebuiltTwin = NotRun
    /\ twinRecord = NotRun
    /\ args = <<>>
    /\ quantity = None
    /\ timing = NotRun
    /\ single = NotRun
    /\ retimed = NotRun
    /\ calls = <<>>
    /\ pianoRoll = None
    /\ previousNotes = None

\* result = clean_piano_roll_data(data)
Clean ==
    /\ pc = "start"
    /\ cleaned' = clean_piano_roll_data(data)
    /\ pc' = "cleaned"
    /\ UNCHANGED <<note, noteResult, data, validation, returned, warnings, recleaned, backend_data, posted, decoded, ensured, clock, generatedIds, noteObj, record, context, rebuilt, twin, rebuiltTwin, twinRecord, args, quantity, timing, single, retimed, calls, pianoRoll, previousNotes>>

\* clean_piano_roll_data(result), the function applied to its own output
CleanAgain ==
    /\ pc = "cleaned"
    /\ ~cleaned.raised
    /\ recleaned' = clean_piano_roll_data(cleaned.value)
    /\ pc' = "recleaned"
    /\ UNCHANGED <<note, noteResult, data, validation, returned, warnings, cleaned, backend_data, posted, decoded, ensured, clock, generatedIds, noteObj, record, context, rebuilt, twin, rebuiltTwin, twinRecord, args, quantity, timing, single, retimed, calls, pianoRoll, previousNotes>>

NextClean == Clean \/ CleanAgain

SpecClean == InitClean /\ [][NextClean]_vars

---------------------------------------------------------------------------
(* Decoding: boundary maps handed to PianoRollData.from_dict, their notes
   plain maps or NoteData instances *)

DecodeMaps ==
    CleanMaps \cup
    {PayloadMap([notes |-> PyList(ns), timeSignature |-> ts]) :
        ns \in SeqsUpTo(CleanNotes \cup {AsObj(ValidNote)}, MaxNotes),
        ts \in {Absent, AsObj(TimeSignatureMap(PyInt(3), PyInt(4)))}}

InitDecode ==
    /\ pc = "start"
    /\ note = ValidNote
    /\ noteResult = NotRun
    /\ data \in DecodeMaps
    /\ validation = NotRun
    /\ returned = NotRun
    /\ warnings = <<>>
    /\ cleaned = NotRun
    /\ recleaned = NotRun
    /\ backend_data = PianoRollBackendData
    /\ posted = NotRun
    /\ decoded = NotRun
    /\ ensured = NotRun
    /\ clock = 1
    /\ generatedIds = <<>>
    /\ noteObj = None
    /\ record = NotRun
    /\ context = None
    /\ rebuilt = NotRun
    /\ twin = None
    /\ rebuiltTwin = NotRun
    /\ twinRecord = NotRun
    /\ args = <<>>
    /\ quantity = None
    /\ timing = NotRun
    /\ single = NotRun
    /\ retimed = NotRun
    /\ calls = <<>>
    /\ pianoRoll = None
    /\ previousNotes = None

\* PianoRollData.from_dict(data)
FromDict ==
    /\ pc = "start"
    /\ decoded' = PianoRollData_from_dict(data)
    /\ pc' = "from_dict"
    /\ UNCHANGED <<note, noteResult, data, validation, returned, warnings, cleaned, recleaned, backend_data, posted, ensured, clock, generatedIds, noteObj, record, context, rebuilt, twin, rebuiltTwin, twinRecord, args, quantity, timing, single, retimed, calls, pianoRoll, previousNotes>>

NextDecode == FromDict

SpecDecode == InitDecode /\ [][NextDecode]_vars

---------------------------------------------------------------------------
(* Ids: timelines whose notes have an id, an empty or null id, or none *)

NullIdNote == NoteMap(None, PyInt(0), PyInt(100), PyInt(62), PyInt(90))

EmptyIdNote == NoteMap(PyStr(""), PyInt(100), PyInt(100), PyInt(64), PyInt(80))

IdNotes == {ValidNote, UnnamedNote, NullIdNote, EmptyIdNote}

EnsureMaps ==
    {TimelineMap(notes, tempo, TimeSignatureMap(PyInt(4), PyInt(4)),
                 PyStr("select"), PyStr("1/4")) :
        notes \in {Absent, None} \cup {PyList(ns) : ns \in SeqsUpTo(IdNotes, MaxNotes)},
        tempo \in {Absent, PyInt(120)}}

EnsureInputs == {None} \cup EnsureMaps \cup {AsPianoRollData(m) : m \in EnsureMaps}

InitEnsure ==
    /\ pc = "start"
    /\ note = ValidNote
    /\ noteResult = NotRun
    /\ data \in EnsureInputs
    /\ validation = NotRun
    /\ returned = NotRun
    /\ warnings = <<>>
    /\ cleaned = NotRun
    /\ recleaned = NotRun
    /\ backend_data = PianoRollBackendData
    /\ posted = NotRun
    /\ decoded = NotRun
    /\ ensured = NotRun
    /\ clock = 1
    /\ generatedIds = <<>>
    /\ noteObj = None
    /\ record = NotRun
    /\ context = None
    /\ rebuilt = NotRun
    /\ twin = None
    /\ rebuiltTwin = NotRun
    /\ twinRecord = NotRun
    /\ args = <<>>
    /\ quantity = None
    /\ timing = NotRun
    /\ single = NotRun
    /\ retimed = NotRun
    /\ calls = <<>>
    /\ pianoRoll = None
    /\ previousNotes = None

\* result = ensure_note_ids(data)
EnsureNoteIds ==
    /\ pc = "start"
    /\ \E ids \in [1..MaxNotes -> GeneratedIds] :
           \E r \in {ensure_note_ids(data, ids)} :
               /\ ensured' = r
               /\ data' = IF r.raised THEN data ELSE r.value
    /\ pc' = "ensure_note_ids"
    /\ UNCHANGED <<note, noteResult, validation, returned, warnings, cleaned, recleaned, backend_data, posted, decoded, clock, generatedIds, noteObj, record, context, rebuilt, twin, rebuiltTwin, twinRecord, args, quantity, timing, single, retimed, calls, pianoRoll, previousNotes>>

NextEnsure == EnsureNoteIds

SpecEnsure == InitEnsure /\ [][NextEnsure]_vars

---------------------------------------------------------------------------
(* Ids: generate_note_id called again and again while the clock advances, and
   ensure_note_ids on a timeline *)

MaxClock == 2

MaxIds == 2

IdTimelines ==
    {TimelineMap(PyList(ns), PyInt(120), TimeSignatureMap(PyInt(4), PyInt(4)),
                 PyStr("select"), PyStr("1/4")) :
        ns \in SeqsUpTo({ValidNote, UnnamedNote}, MaxNotes)}

InitIds ==
    /\ pc = "start"
    /\ note = ValidNote
    /\ noteResult = NotRun
    /\ data \in IdTimelines
    /\ validation = NotRun
    /\ returned = NotRun
    /\ warnings = <<>>
    /\ cleaned = NotRun
    /\ recleaned = NotRun
    /\ backend_data = PianoRollBackendData
    /\ posted = NotRun
    /\ decoded = NotRun
    /\ ensured = NotRun
    /\ clock = 1
    /\ generatedIds = <<>>
    /\ noteObj = None
    /\ record = NotRun
    /\ context = None
    /\ rebuilt = NotRun
    /\ twin = None
    /\ rebuiltTwin = NotRun
    /\ twinRecord = NotRun
    /\ args = <<>>
    /\ quantity = None
    /\ timing = NotRun
    /\ single = NotRun
    /\ retimed = NotRun
    /\ calls = <<>>
    /\ pianoRoll = None
    /\ previousNotes = None

\* a millisecond passes
Tick ==
    /\ pc = "start"
    /\ clock < MaxClock
    /\ clock' = clock + 1
    /\ UNCHANGED <<pc, note, noteResult, data, validation, returned, warnings, cleaned, recleaned, backend_data, posted, decoded, ensured, generatedIds, noteObj, record, context, rebuilt, twin, rebuiltTwin, twinRecord, args, quantity, timing, single, retimed, calls, pianoRoll, previousNotes>>

\* generate_note_id()
GenerateNoteId ==
    /\ pc = "start"
    /\ Len(generatedIds) < MaxIds
    /\ \E suffix \in Suffixes :
           generatedIds' = Append(generatedIds,
               [timestamp |-> clock, suffix |-> suffix,
                id |-> generate_note_id(clock, suffix)])
    /\ UNCHANGED <<pc, note, noteResult, data, validation, returned, warnings, cleaned, recleaned, backend_data, posted, decoded, ensured, clock, noteObj, record, context, rebuilt, twin, rebuiltTwin, twinRecord, args, quantity, timing, single, retimed, calls, pianoRoll, previousNotes>>

NextIds == Tick \/ GenerateNoteId \/ EnsureNoteIds

SpecIds == InitIds /\ [][NextIds]_vars

---------------------------------------------------------------------------
(* The widget: values handed to postprocess while the backend data object is
   filled and emptied *)

MaxSegments == 2

WidgetNotes == {ValidNote, PartialNote, UnnamedNote}

\* payloads with any notes under the default context, and payloads with any
\* context around a single note
WidgetRecords ==
    [notes : {Absent, None} \cup {PyList(ns) : ns \in SeqsUpTo(WidgetNotes, MaxNotes)},
     tempo : {Absent},
     pixelsPerBeat : {Absent},
     audio_data : {Absent}]
    \cup
    [notes : {Absent, PyList(<<ValidNote>>), PyList(<<UnnamedNote>>)},
     tempo : {Absent, PyInt(60), PyInt(0)},
     pixelsPerBeat : {Absent, PyInt(40)},
     audio_data : {Absent, PyStr("stale")}]

WidgetInputs == {None} \cup {PayloadMap(r) : r \in WidgetRecords}

AudioValues == {PyStr("data:audio/wav;base64,AAAA"), PyStr("")}

CurveValues == {PyList(<<PyInt(1)>>)}

IdSlots ==
    1..(IF Len(DefaultNotes) > MaxNotes THEN Len(DefaultNotes) ELSE MaxNotes)

InitWidget ==
    /\ pc = "start"
    /\ note = ValidNote
    /\ noteResult = NotRun
    /\ data \in WidgetInputs
    /\ validation = NotRun
    /\ returned = NotRun
    /\ warnings = <<>>
    /\ cleaned = NotRun
    /\ recleaned = NotRun
    /\ backend_data = PianoRollBackendData
    /\ posted = NotRun
    /\ decoded = NotRun
    /\ ensured = NotRun
    /\ clock = 1
    /\ generatedIds = <<>>
    /\ noteObj = None
    /\ record = NotRun
    /\ context = None
    /\ rebuilt = NotRun
    /\ twin = None
    /\ rebuiltTwin = NotRun
    /\ twinRecord = NotRun
    /\ args = <<>>
    /\ quantity = None
    /\ timing = NotRun
    /\ single = NotRun
    /\ retimed = NotRun
    /\ calls = <<>>
    /\ pianoRoll = None
    /\ previousNotes = None

SetAudio ==
    /\ pc = "start"
    /\ \E audio \in AudioValues : backend_data' = set_audio(backend_data, audio)
    /\ UNCHANGED <<pc, note, noteResult, data, validation, returned, warnings, cleaned, recleaned, posted, decoded, ensured, clock, generatedIds, noteObj, record, context, rebuilt, twin, rebuiltTwin, twinRecord, args, quantity, timing, single, retimed, calls, pianoRoll, previousNotes>>

AddCurve ==
    /\ pc = "start"
    /\ \E name \in CurveNames, curve \in CurveValues :
           backend_data' = add_curve(backend_data, name, curve)
    /\ UNCHANGED <<pc, note, noteResult, data, validation, returned, warnings, cleaned, recleaned, posted, decoded, ensured, clock, generatedIds, noteObj, record, context, rebuilt, twin, rebuiltTwin, twinRecord, args, quantity, timing, single, retimed, calls, pianoRoll, previousNotes>>

RemoveCurve ==
    /\ pc = "start"
    /\ \E name \in CurveNames : backend_data' = remove_curve(backend_data, name)
    /\ UNCHANGED <<pc, note, noteResult, data, validation, returned, warnings, cleaned, recleaned, posted, decoded, ensured, clock, generatedIds, noteObj, record, context, rebuilt, twin, rebuiltTwin, twinRecord, args, quantity, timing, single, retimed, calls, pianoRoll, previousNotes>>

AddSegment ==
    /\ pc = "start"
    /\ Len(backend_data.segment_data.v) < MaxSegments
    /\ backend_data' = add_segment(backend_data, SegmentMap)
    /\ UNCHANGED <<pc, note, noteResult, data, validation, returned, warnings, cleaned, recleaned, posted, decoded, ensured, clock, generatedIds, noteObj, record, context, rebuilt, twin, rebuiltTwin, twinRecord, args, quantity, timing, single, retimed, calls, pianoRoll, previousNotes>>

ClearSegments ==
    /\ pc = "start"
    /\ backend_data' = clear_segments(backend_data)
    /\ UNCHANGED <<pc, note, noteResult, data, validation, returned, warnings, cleaned, recleaned, posted, decoded, ensured, clock, generatedIds, noteObj, record, context, rebuilt, twin, rebuiltTwin, twinRecord, args, quantity, timing, single, retimed, calls, pianoRoll, previousNotes>>

EnableBackendAudio ==
    /\ pc = "start"
    /\ \E enable \in BOOLEAN : backend_data' = enable_backend_audio(backend_data, enable)
    /\ UNCHANGED <<pc, note, noteResult, data, validation, returned, warnings, cleaned, recleaned, posted, decoded, ensured, clock, generatedIds, noteObj, record, context, rebuilt, twin, rebuiltTwin, twinRecord, args, quantity, timing, single, retimed, calls, pianoRoll, previousNotes>>

Postprocess ==
    /\ pc = "start"
    /\ \E ids \in [IdSlots -> GeneratedIds] :
           posted' = postprocess(data, backend_data, ids)
    /\ pc' = "postprocess"
    /\ UNCHANGED <<note, noteResult, data, validation, returned, warnings, cleaned, recleaned, backend_data, decoded, ensured, clock, generatedIds, noteObj, record, context, rebuilt, twin, rebuiltTwin, twinRecord, args, quantity, timing, single, retimed, calls, pianoRoll, previousNotes>>

NextWidget ==
    \/ SetAudio
    \/ AddCurve
    \/ RemoveCurve
    \/ AddSegment
    \/ ClearSegments
    \/ EnableBackendAudio
    \/ Postprocess

SpecWidget == InitWidget /\ [][NextWidget]_vars

---------------------------------------------------------------------------
(* A Note under edit: moved, resized, transposed and given a new context,
   written out with to_dict and read back with from_dict *)

ContextFields == {"pixels_per_beat", "tempo", "sample_rate", "ppqn"}

TimingContext(pixels_per_beat, tempo, sample_rate, ppqn) ==
    [pixels_per_beat |-> pixels_per_beat, tempo |-> tempo,
     sample_rate |-> sample_rate, ppqn |-> ppqn]

\* the defaults of Note and of Note.from_dict: 80.0, 120.0, 44100, 480
DefaultContext == TimingContext(PyFloat(160), PyFloat(240), PyInt(44100), PyInt(480))

NoteContexts ==
    {DefaultContext,
     TimingContext(PyInt(40), PyInt(60), PyInt(48000), PyInt(960)),
     TimingContext(PyInt(80), PyInt(60), PyInt(44100), PyInt(480))}

StartValues == {PyInt(0), PyInt(80), PyFloat(81)}

DurationValues == {PyInt(40), PyFloat(160)}

Semitones == {-200, 100}

InitNoteObj ==
    /\ pc = "start"
    /\ note = ValidNote
    /\ noteResult = NotRun
    /\ data = EmptyDict
    /\ validation = NotRun
    /\ returned = NotRun
    /\ warnings = <<>>
    /\ cleaned = NotRun
    /\ recleaned = NotRun
    /\ backend_data = PianoRollBackendData
    /\ posted = NotRun
    /\ decoded = NotRun
    /\ ensured = NotRun
    /\ clock = 1
    /\ generatedIds = <<>>
    /\ \E start \in StartValues, id \in {None, PyStr("n1")},
          fresh \in {generate_note_id(clock, "aaaaa")} :
           noteObj = Note(PyInt(60), PyInt(100), PyStr("la"), start, PyFloat(160),
                          DefaultContext.pixels_per_beat, DefaultContext.tempo,
                          DefaultContext.sample_rate, DefaultContext.ppqn, id, fresh)
    /\ record = NotRun
    /\ context = None
    /\ rebuilt = NotRun
    /\ twin = None
    /\ rebuiltTwin = NotRun
    /\ twinRecord = NotRun
    /\ args = <<>>
    /\ quantity = None
    /\ timing = NotRun
    /\ single = NotRun
    /\ retimed = NotRun
    /\ calls = <<>>
    /\ pianoRoll = None
    /\ previousNotes = None

MoveTo ==
    /\ \E start_pixels \in StartValues :
           /\ noteObj' = move_to(noteObj, start_pixels)
           /\ args' = <<start_pixels>>
    /\ pc' = "move_to"
    /\ record' = NotRun
    /\ rebuilt' = NotRun
    /\ context' = None
    /\ UNCHANGED <<note, noteResult, data, validation, returned, warnings, cleaned, recleaned, backend_data, posted, decoded, ensured, clock, generatedIds, twin, rebuiltTwin, twinRecord, quantity, timing, single, retimed, calls, pianoRoll, previousNotes>>

Resize ==
    /\ \E duration_pixels \in DurationValues :
           /\ noteObj' = resize(noteObj, duration_pixels)
           /\ args' = <<duration_pixels>>
    /\ pc' = "resize"
    /\ record' = NotRun
    /\ rebuilt' = NotRun
    /\ context' = None
    /\ UNCHANGED <<note, noteResult, data, validation, returned, warnings, cleaned, recleaned, backend_data, posted, decoded, ensured, clock, generatedIds, twin, rebuiltTwin, twinRecord, quantity, timing, single, retimed, calls, pianoRoll, previousNotes>>

Transpose ==
    /\ \E semitones \in Semitones :
           /\ noteObj' = transpose(noteObj, semitones)
           /\ args' = <<semitones>>
    /\ pc' = "transpose"
    /\ record' = NotRun
    /\ rebuilt' = NotRun
    /\ context' = None
    /\ UNCHANGED <<note, noteResult, data, validation, returned, warnings, cleaned, recleaned, backend_data, posted, decoded, ensured, clock, generatedIds, twin, rebuiltTwin, twinRecord, quantity, timing, single, retimed, calls, pianoRoll, previousNotes>>

UpdateContext ==
    /\ \E pixels_per_beat \in {None, PyInt(40)}, tempo \in {None, PyInt(60)},
          sample_rate \in {None, PyInt(48000)}, ppqn \in {None, PyInt(960)} :
           /\ noteObj' = update_context(noteObj, pixels_per_beat, tempo, sample_rate, ppqn)
           /\ args' = <<pixels_per_beat, tempo, sample_rate, ppqn>>
    /\ pc' = "update_context"
    /\ record' = NotRun
    /\ rebuilt' = NotRun
    /\ context' = None
    /\ UNCHANGED <<note, noteResult, data, validation, returned, warnings, cleaned, recleaned, backend_data, posted, decoded, ensured, clock, generatedIds, twin, rebuiltTwin, twinRecord, quantity, timing, single, retimed, calls, pianoRoll, previousNotes>>

\* record = noteObj.to_dict()
ToDict ==
    /\ pc \in {"start", "move_to", "resize", "transpose", "update_context"}
    /\ record' = Note_to_dict(noteObj)
    /\ pc' = "to_dict"
    /\ args' = <<>>
    /\ UNCHANGED <<note, noteResult, data, validation, returned, warnings, cleaned, recleaned, backend_data, posted, decoded, ensured, clock, generatedIds, noteObj, context, rebuilt, twin, rebuiltTwin, twinRecord, quantity, timing, single, retimed, calls, pianoRoll, previousNotes>>

\* rebuilt = Note.from_dict(record, **context)
RoundTrip ==
    /\ pc = "to_dict"
    /\ ~record.raised
    /\ \E ctx \in NoteContexts, fresh \in GeneratedIds :
           /\ context' = ctx
           /\ rebuilt' = Note_from_dict(record.value, ctx.pixels_per_beat, ctx.tempo,
                                        ctx.sample_rate, ctx.ppqn, fresh)
    /\ pc' = "from_dict"
    /\ UNCHANGED <<note, noteResult, data, validation, returned, warnings, cleaned, recleaned, backend_data, posted, decoded, ensured, clock, generatedIds, noteObj, record, twin, rebuiltTwin, twinRecord, args, quantity, timing, single, retimed, calls, pianoRoll, previousNotes>>

NextNoteObj ==
    \/ MoveTo
    \/ Resize
    \/ Transpose
    \/ UpdateContext
    \/ ToDict
    \/ RoundTrip

SpecNoteObj == InitNoteObj /\ [][NextNoteObj]_vars

---------------------------------------------------------------------------
(* Note records from the boundary: a record and a twin that differs from it
   in derived timing fields only, both decoded under one context *)

\* the optional fields of a record: both absent or both given
OptionalPairs == {<<Absent, Absent>>, <<PyInt(90), PyStr("la")>>}

BoundaryRecords ==
    {PyDict([NoteMap(id, start, duration, pitch, opt[1]).v EXCEPT !["lyric"] = opt[2]]) :
        id \in {Absent, None, PyStr(""), PyStr("n1")},
        start \in {Absent, PyInt(80), PyStr("x")},
        duration \in {Absent, PyInt(40)},
        pitch \in {Absent, PyInt(60)},
        opt \in OptionalPairs}

\* derived timing fields as a sender may set them: none, two of them, all
Forgeries ==
    {[f \in TimingFields |-> Absent],
     [f \in TimingFields |->
         IF f = "startSeconds" THEN PyInt(99)
         ELSE IF f = "durationTicks" THEN PyInt(7) ELSE Absent],
     [f \in TimingFields |-> PyInt(1)]}

Forged(r, forgery) ==
    PyDict([f \in DOMAIN r.v |-> IF f \in TimingFields THEN forgery[f] ELSE r.v[f]])

RecordContexts ==
    {DefaultContext, TimingContext(PyInt(40), PyInt(60), PyInt(48000), PyInt(960))}

InitRecord ==
    /\ pc = "start"
    /\ \E r \in BoundaryRecords, forgery \in Forgeries, other \in Forgeries :
           /\ note = Forged(r, forgery)
           /\ twin = Forged(r, other)
    /\ context \in RecordContexts
    /\ noteResult = NotRun
    /\ data = EmptyDict
    /\ validation = NotRun
    /\ returned = NotRun
    /\ warnings = <<>>
    /\ cleaned = NotRun
    /\ recleaned = NotRun
    /\ backend_data = PianoRollBackendData
    /\ posted = NotRun
    /\ decoded = NotRun
    /\ ensured = NotRun
    /\ clock = 1
    /\ generatedIds = <<>>
    /\ noteObj = None
    /\ record = NotRun
    /\ rebuilt = NotRun
    /\ rebuiltTwin = NotRun
    /\ twinRecord = NotRun
    /\ args = <<>>
    /\ quantity = None
    /\ timing = NotRun
    /\ single = NotRun
    /\ retimed = NotRun
    /\ calls = <<>>
    /\ pianoRoll = None
    /\ previousNotes = None

\* rebuilt = Note.from_dict(note, **context); rebuiltTwin likewise from twin,
\* each call drawing its own generated id
FromDictPair ==
    /\ pc = "start"
    /\ \E fresh \in GeneratedIds, freshTwin \in GeneratedIds :
           /\ rebuilt' = Note_from_dict(note, context.pixels_per_beat, context.tempo,
                                        context.sample_rate, context.ppqn, fresh)
           /\ rebuiltTwin' = Note_from_dict(twin, context.pixels_per_beat, context.tempo,
                                            context.sample_rate, context.ppqn, freshTwin)
    /\ pc' = "from_dict"
    /\ UNCHANGED <<note, noteResult, data, validation, returned, warnings, cleaned, recleaned, backend_data, posted, decoded, ensured, clock, generatedIds, noteObj, record, context, twin, twinRecord, args, quantity, timing, single, retimed, calls, pianoRoll, previousNotes>>

\* record = rebuilt.to_dict(); twinRecord = rebuiltTwin.to_dict()
ToDictPair ==
    /\ pc = "from_dict"
    /\ ~rebuilt.raised
    /\ ~rebuiltTwin.raised
    /\ record' = Note_to_dict(rebuilt.value)
    /\ twinRecord' = Note_to_dict(rebuiltTwin.value)
    /\ pc' = "to_dict"
    /\ UNCHANGED <<note, noteResult, data, validation, returned, warnings, cleaned, recleaned, backend_data, posted, decoded, ensured, clock, generatedIds, noteObj, context, rebuilt, twin, rebuiltTwin, args, quantity, timing, single, retimed, calls, pianoRoll, previousNotes>>

NextRecord ==
    \/ FromDictPair
    \/ ToDictPair

SpecRecord == InitRecord /\ [][NextRecord]_vars

---------------------------------------------------------------------------
(* The timing conversions called on one pixel quantity under one context *)

\* pixel quantities: zero, whole beats, parts of a beat, and a negative one
Quantities == {PyInt(0), PyInt(40), PyInt(80), PyFloat(81), PyInt(81), PyInt(100), PyInt(-50)}

TimingInputs ==
    {DefaultContext,
     TimingContext(PyInt(40), PyInt(60), PyInt(48000), PyInt(960)),
     TimingContext(PyInt(50), PyInt(90), PyInt(44100), PyInt(480))}

\* the tempos of a second pixels_to_flicks call
Tempos == {PyInt(60), PyInt(90), PyFloat(240), PyInt(240)}

InitTiming ==
    /\ pc = "start"
    /\ quantity \in Quantities
    /\ context \in TimingInputs
    /\ timing = NotRun
    /\ single = [key \in TimingKeys |-> NotRun]
    /\ retimed = NotRun
    /\ calls = <<>>
    /\ pianoRoll = None
    /\ previousNotes = None
    /\ note = ValidNote
    /\ noteResult = NotRun
    /\ data = EmptyDict
    /\ validation = NotRun
    /\ returned = NotRun
    /\ warnings = <<>>
    /\ cleaned = NotRun
    /\ recleaned = NotRun
    /\ backend_data = PianoRollBackendData
    /\ posted = NotRun
    /\ decoded = NotRun
    /\ ensured = NotRun
    /\ clock = 1
    /\ generatedIds = <<>>
    /\ noteObj = None
    /\ record = NotRun
    /\ rebuilt = NotRun
    /\ twin = None
    /\ rebuiltTwin = NotRun
    /\ twinRecord = NotRun
    /\ args = <<>>

\* timing = calculate_all_timing_data(quantity, **context)
CalculateAllTimingData ==
    /\ timing = NotRun
    /\ timing' = Returned(calculate_all_timing_data(ToFrac(quantity),
                     ToFrac(context.pixels_per_beat), ToFrac(context.tempo),
                     ToFrac(context.sample_rate), ToFrac(context.ppqn)))
    /\ pc' = "calculate_all_timing_data"
    /\ UNCHANGED <<note, noteResult, data, validation, returned, warnings, cleaned, recleaned, backend_data, posted, decoded, ensured, clock, generatedIds, noteObj, record, context, rebuilt, twin, rebuiltTwin, twinRecord, args, quantity, single, retimed, calls, pianoRoll, previousNotes>>

PixelsToSeconds ==
    /\ single["seconds"] = NotRun
    /\ single' = [single EXCEPT !["seconds"] =
                     Returned(PyRatio(pixels_to_seconds(ToFrac(quantity),
                         ToFrac(context.pixels_per_beat), ToFrac(context.tempo))))]
    /\ pc' = "pixels_to_seconds"
    /\ UNCHANGED <<note, noteResult, data, validation, returned, warnings, cleaned, recleaned, backend_data, posted, decoded, ensured, clock, generatedIds, noteObj, record, context, rebuilt, twin, rebuiltTwin, twinRecord, args, quantity, timing, retimed, calls, pianoRoll, previousNotes>>

PixelsToBeats ==
    /\ single["beats"] = NotRun
    /\ single' = [single EXCEPT !["beats"] =
                     Returned(PyRatio(pixels_to_beats(ToFrac(quantity),
                         ToFrac(context.pixels_per_beat))))]
    /\ pc' = "pixels_to_beats"
    /\ UNCHANGED <<note, noteResult, data, validation, returned, warnings, cleaned, recleaned, backend_data, posted, decoded, ensured, clock, generatedIds, noteObj, record, context, rebuilt, twin, rebuiltTwin, twinRecord, args, quantity, timing, retimed, calls, pianoRoll, previousNotes>>

PixelsToFlicks ==
    /\ single["flicks"] = NotRun
    /\ single' = [single EXCEPT !["flicks"] =
                     Returned(PyRatio(pixels_to_flicks(ToFrac(quantity),
                         ToFrac(context.pixels_per_beat), ToFrac(context.tempo))))]
    /\ pc' = "pixels_to_flicks"
    /\ UNCHANGED <<note, noteResult, data, validation, returned, warnings, cleaned, recleaned, backend_data, posted, decoded, ensured, clock, generatedIds, noteObj, record, context, rebuilt, twin, rebuiltTwin, twinRecord, args, quantity, timing, retimed, calls, pianoRoll, previousNotes>>

PixelsToTicks ==
    /\ single["ticks"] = NotRun
    /\ single' = [single EXCEPT !["ticks"] =
                     Returned(PyInt(pixels_to_ticks(ToFrac(quantity),
                         ToFrac(context.pixels_per_beat), ToFrac(context.ppqn))))]
    /\ pc' = "pixels_to_ticks"
    /\ UNCHANGED <<note, noteResult, data, validation, returned, warnings, cleaned, recleaned, backend_data, posted, decoded, ensured, clock, generatedIds, noteObj, record, context, rebuilt, twin, rebuiltTwin, twinRecord, args, quantity, timing, retimed, calls, pianoRoll, previousNotes>>

PixelsToSamples ==
    /\ single["samples"] = NotRun
    /\ single' = [single EXCEPT !["samples"] =
                     Returned(PyInt(pixels_to_samples(ToFrac(quantity),
                         ToFrac(context.pixels_per_beat), ToFrac(context.tempo),
                         ToFrac(context.sample_rate))))]
    /\ pc' = "pixels_to_samples"
    /\ UNCHANGED <<note, noteResult, data, validation, returned, warnings, cleaned, recleaned, backend_data, posted, decoded, ensured, clock, generatedIds, noteObj, record, context, rebuilt, twin, rebuiltTwin, twinRecord, args, quantity, timing, retimed, calls, pianoRoll, previousNotes>>

\* retimed = pixels_to_flicks(quantity, pixels_per_beat, tempo) at another tempo
PixelsToFlicksAtTempo ==
    /\ retimed = NotRun
    /\ calls = <<>>
    /\ pianoRoll = None
    /\ previousNotes = None
    /\ \E tempo \in Tempos :
           /\ args' = <<tempo>>
           /\ retimed' = Returned(PyRatio(pixels_to_flicks(ToFrac(quantity),
                             ToFrac(context.pixels_per_beat), ToFrac(tempo))))
    /\ pc' = "pixels_to_flicks"
    /\ UNCHANGED <<note, noteResult, data, validation, returned, warnings, cleaned, recleaned, backend_data, posted, decoded, ensured, clock, generatedIds, noteObj, record, context, rebuilt, twin, rebuiltTwin, twinRecord, quantity, timing, single, calls, pianoRoll, previousNotes>>

NextTiming ==
    \/ CalculateAllTimingData
    \/ PixelsToSeconds
    \/ PixelsToBeats
    \/ PixelsToFlicks
    \/ PixelsToTicks
    \/ PixelsToSamples
    \/ PixelsToFlicksAtTempo

SpecTiming == InitTiming /\ [][NextTiming]_vars

---------------------------------------------------------------------------
(* The backend data object on its own: every call on it is logged *)

\* longest sequence of calls made on the backend data object
MaxCalls == 3

BackendCurveNames == {"pitch", "loudness"}

\* two curves with different keys
BackendCurves ==
    {PyDict([f \in {"color", "data"} |-> IF f = "color" THEN PyStr("red") ELSE Absent]),
     PyDict([f \in {"color", "data"} |-> IF f = "data" THEN PyList(<<PyInt(1)>>) ELSE Absent])}

BackendSegments ==
    {SegmentMap,
     PyDict([f \in {"start", "end"} |-> IF f = "start" THEN PyInt(1) ELSE PyInt(2)])}

Call(op, name, value) == [op |-> op, name |-> name, value |-> value]

InitBackend ==
    /\ pc = "start"
    /\ backend_data =
           [PianoRollBackendData EXCEPT
               !.curve_data = PyDict([name \in BackendCurveNames |-> Absent])]
    /\ calls = <<>>
    /\ pianoRoll = None
    /\ previousNotes = None
    /\ note = ValidNote
    /\ noteResult = NotRun
    /\ data = EmptyDict
    /\ validation = NotRun
    /\ returned = NotRun
    /\ warnings = <<>>
    /\ cleaned = NotRun
    /\ recleaned = NotRun
    /\ posted = NotRun
    /\ decoded = NotRun
    /\ ensured = NotRun
    /\ clock = 1
    /\ generatedIds = <<>>
    /\ noteObj = None
    /\ record = NotRun
    /\ context = None
    /\ rebuilt = NotRun
    /\ twin = None
    /\ rebuiltTwin = NotRun
    /\ twinRecord = NotRun
    /\ args = <<>>
    /\ quantity = None
    /\ timing = NotRun
    /\ single = NotRun
    /\ retimed = NotRun

CallSetAudio ==
    /\ Len(calls) < MaxCalls
    /\ \E audio \in {PyStr("data:audio/wav;base64,AAAA")} :
           /\ backend_data' = set_audio(backend_data, audio)
           /\ calls' = Append(calls, Call("set_audio", "", audio))
    /\ pc' = "set_audio"
    /\ UNCHANGED <<note, noteResult, data, validation, returned, warnings, cleaned, recleaned, posted, decoded, ensured, clock, generatedIds, noteObj, record, context, rebuilt, twin, rebuiltTwin, twinRecord, args, quantity, timing, single, retimed, pianoRoll, previousNotes>>

CallAddCurve ==
    /\ Len(calls) < MaxCalls
    /\ \E name \in BackendCurveNames, curve \in BackendCurves :
           /\ backend_data' = add_curve(backend_data, name, curve)
           /\ calls' = Append(calls, Call("add_curve", name, curve))
    /\ pc' = "add_curve"
    /\ UNCHANGED <<note, noteResult, data, validation, returned, warnings, cleaned, recleaned, posted, decoded, ensured, clock, generatedIds, noteObj, record, context, rebuilt, twin, rebuiltTwin, twinRecord, args, quantity, timing, single, retimed, pianoRoll, previousNotes>>

CallRemoveCurve ==
    /\ Len(calls) < MaxCalls
    /\ \E name \in BackendCurveNames :
           /\ backend_data' = remove_curve(backend_data, name)
           /\ calls' = Append(calls, Call("remove_curve", name, None))
    /\ pc' = "remove_curve"
    /\ UNCHANGED <<note, noteResult, data, validation, returned, warnings, cleaned, recleaned, posted, decoded, ensured, clock, generatedIds, noteObj, record, context, rebuilt, twin, rebuiltTwin, twinRecord, args, quantity, timing, single, retimed, pianoRoll, previousNotes>>

CallAddSegment ==
    /\ Len(calls) < MaxCalls
    /\ \E segment \in BackendSegments :
           /\ backend_data' = add_segment(backend_data, segment)
           /\ calls' = Append(calls, Call("add_segment", "", segment))
    /\ pc' = "add_segment"
    /\ UNCHANGED <<note, noteResult, data, validation, returned, warnings, cleaned, recleaned, posted, decoded, ensured, clock, generatedIds, noteObj, record, context, rebuilt, twin, rebuiltTwin, twinRecord, args, quantity, timing, single, retimed, pianoRoll, previousNotes>>

CallClearSegments ==
    /\ Len(calls) < MaxCalls
    /\ backend_data' = clear_segments(backend_data)
    /\ calls' = Append(calls, Call("clear_segments", "", None))
    /\ pc' = "clear_segments"
    /\ UNCHANGED <<note, noteResult, data, validation, returned, warnings, cleaned, recleaned, posted, decoded, ensured, clock, generatedIds, noteObj, record, context, rebuilt, twin, rebuiltTwin, twinRecord, args, quantity, timing, single, retimed, pianoRoll, previousNotes>>

CallEnableBackendAudio ==
    /\ Len(calls) < MaxCalls
    /\ \E enable \in BOOLEAN :
           /\ backend_data' = enable_backend_audio(backend_data, enable)
           /\ calls' = Append(calls, Call("enable_backend_audio", "", PyBool(enable)))
    /\ pc' = "enable_backend_audio"
    /\ UNCHANGED <<note, noteResult, data, validation, returned, warnings, cleaned, recleaned, posted, decoded, ensured, clock, generatedIds, noteObj, record, context, rebuilt, twin, rebuiltTwin, twinRecord, args, quantity, timing, single, retimed, pianoRoll, previousNotes>>

NextBackend ==
    \/ CallSetAudio
    \/ CallAddCurve
    \/ CallRemoveCurve
    \/ CallAddSegment
    \/ CallClearSegments
    \/ CallEnableBackendAudio

SpecBackend == InitBackend /\ [][NextBackend]_vars

---------------------------------------------------------------------------
(* The widget's notes: add_note and remove_note on a constructed PianoRoll *)

\* longest notes list add_note is called on
MaxWidgetNotes == 4

\* the values a PianoRoll is constructed with: none, a timeline with one
\* note under its own tempo, a timeline without notes, settings alone
ConstructorValues ==
    {None,
     PayloadMap([notes |-> PyList(<<ValidNote>>), tempo |-> PyInt(60)]),
     PayloadMap([notes |-> PyList(<<ValidNote, NoteMap(generate_note_id(1, "aaaaa"), PyInt(80), PyInt(40), PyInt(64), PyInt(90))>>)]),
     PayloadMap([notes |-> PyList(<<>>), tempo |-> PyInt(120)]),
     PayloadMap([tempo |-> PyInt(120)])}

\* the ids generate_note_id hands to add_note: one that a default note
\* already carries and one that no note carries
AddedIds == {generate_note_id(1, "aaaaa"), generate_note_id(2, "bbbbb")}

\* the ids remove_note is called with
RemovableIds == AddedIds \cup {PyStr("n1"), PyStr("n9")}

\* the ids the three default notes are given at construction
ConstructionIds ==
    <<generate_note_id(1, "aaaaa"), generate_note_id(1, "bbbbb"), generate_note_id(2, "aaaaa")>>

InitPianoRoll ==
    /\ pc = "start"
    /\ \E value \in ConstructorValues :
           pianoRoll = [value |-> PianoRoll(value, ConstructionIds).value]
    /\ previousNotes = None
    /\ returned = NotRun
    /\ args = <<>>
    /\ note = ValidNote
    /\ noteResult = NotRun
    /\ data = EmptyDict
    /\ validation = NotRun
    /\ warnings = <<>>
    /\ cleaned = NotRun
    /\ recleaned = NotRun
    /\ backend_data = PianoRollBackendData
    /\ posted = NotRun
    /\ decoded = NotRun
    /\ ensured = NotRun
    /\ clock = 1
    /\ generatedIds = <<>>
    /\ noteObj = None
    /\ record = NotRun
    /\ context = None
    /\ rebuilt = NotRun
    /\ twin = None
    /\ rebuiltTwin = NotRun
    /\ twinRecord = NotRun
    /\ quantity = None
    /\ timing = NotRun
    /\ single = NotRun
    /\ retimed = NotRun
    /\ calls = <<>>

\* returned = pianoRoll.add_note(pitch, start_pixels, duration_pixels[, velocity, lyric])
AddNote ==
    /\ Len(Get(pianoRoll.value, "notes", PyList(<<>>)).v) < MaxWidgetNotes
    /\ \E pitch \in {PyInt(60)}, start_pixels \in {PyInt(80)}, duration_pixels \in {PyInt(40)},
          optional \in {<<PyInt(100), PyStr(""), generate_note_id(1, "aaaaa")>>,
                        <<PyInt(90), PyStr("la"), generate_note_id(2, "bbbbb")>>} :
           \E r \in {add_note(pianoRoll.value, pitch, start_pixels, duration_pixels,
                              optional[1], optional[2], optional[3])} :
               /\ pianoRoll' = [value |-> r.value]
               /\ returned' = r.outcome
               /\ args' = <<pitch, start_pixels, duration_pixels, optional[1], optional[2]>>
    /\ previousNotes' = Get(pianoRoll.value, "notes", Absent)
    /\ pc' = "add_note"
    /\ UNCHANGED <<note, noteResult, data, validation, warnings, cleaned, recleaned, backend_data, posted, decoded, ensured, clock, generatedIds, noteObj, record, context, rebuilt, twin, rebuiltTwin, twinRecord, quantity, timing, single, retimed, calls>>

\* returned = pianoRoll.remove_note(note_id)
RemoveNote ==
    /\ \E note_id \in RemovableIds :
           \E r \in {remove_note(pianoRoll.value, note_id)} :
               /\ pianoRoll' = [value |-> r.value]
               /\ returned' = r.outcome
               /\ args' = <<note_id>>
    /\ previousNotes' = Get(pianoRoll.value, "notes", Absent)
    /\ pc' = "remove_note"
    /\ UNCHANGED <<note, noteResult, data, validation, warnings, cleaned, recleaned, backend_data, posted, decoded, ensured, clock, generatedIds, noteObj, record, context, rebuilt, twin, rebuiltTwin, twinRecord, quantity, timing, single, retimed, calls>>

NextPianoRoll ==
    \/ AddNote
    \/ RemoveNote

SpecPianoRoll == InitPianoRoll /\ [][NextPianoRoll]_vars

---------------------------------------------------------------------------
(* What the specification expects of a note's error report *)

InList(msg, errs) == \E i \in DOMAIN errs : errs[i] = msg

Count(msg, errs) == Cardinality({i \in DOMAIN errs : errs[i] = msg})

TypeMsg(f) ==
    CASE f = "start" -> "'start' must be a number"
      [] f = "duration" -> "'duration' must be a number"
      [] f = "pitch" -> "'pitch' must be an integer"
      [] f = "velocity" -> "'velocity' must be an integer"
      [] OTHER -> "no type rule"

RangeMsg(f) ==
    CASE f = "start" -> "'start' must be non-negative"
      [] f = "duration" -> "'duration' must be positive"
      [] f = "pitch" -> "'pitch' must be between 0 and 127"
      [] f = "velocity" -> "'velocity' must be between 0 and 127"
      [] OTHER -> "no range rule"

RequiredNoteFieldSet == {RequiredNoteFields[i] : i \in DOMAIN RequiredNoteFields}
CheckedNoteFields == {"start", "duration", "pitch", "velocity"}

MissingMsgs == {MissingMsg(f) : f \in RequiredNoteFieldSet}
TypeMsgs == {TypeMsg(f) : f \in CheckedNoteFields}
RangeMsgs == {RangeMsg(f) : f \in CheckedNoteFields}

\* 1 required-field error, 2 type error, 3 range error
ErrorClass(msg) ==
    IF msg \in MissingMsgs THEN 1 ELSE IF msg \in TypeMsgs THEN 2
    ELSE IF msg \in RangeMsgs THEN 3 ELSE 0

\* the fields of a note, of a map or of a NoteData instance (whose unset
\* fields are present and hold None)
FieldsOf(n) == IF n.k = "obj" THEN asdict(n) ELSE n

WrongType(f, x) ==
    IF f \in {"pitch", "velocity"} THEN ~IsInt(x) ELSE ~IsNumber(x)

OutOfRange(f, x) ==
    /\ IsNumber(x)
    /\ CASE f = "start" -> Half(x) < 0
         [] f = "duration" -> Half(x) <= 0
         [] OTHER -> Half(x) < 0 \/ Half(x) > 254

\* every structural error of a note map: the rules of the specification
ExpectedNoteErrors(n) ==
    {MissingMsg(f) : f \in {g \in RequiredNoteFieldSet : ~Has(n, g)}}
    \cup {TypeMsg(f) : f \in {g \in CheckedNoteFields : Has(n, g) /\ WrongType(g, n.v[g])}}
    \cup {RangeMsg(f) : f \in {g \in CheckedNoteFields : Has(n, g) /\ OutOfRange(g, n.v[g])}}

IsNoteMap(n) == n.k \in {"dict", "obj"}

---------------------------------------------------------------------------
(* Claims on note validation, checked under SpecNote *)

\* C1: validate_note (and validate_piano_roll_data) never raises and reports
\* every structural error of its argument (missing required field, wrong
\* type, out-of-range value) in the returned list, also when a present field
\* holds None or a non-numeric value.
C1_NeverRaisesAllReported ==
    pc = "validate_note" =>
        /\ ~noteResult.raised
        /\ \A msg \in ExpectedNoteErrors(FieldsOf(note)) : InList(msg, noteResult.value)

\* C8: validation of a single note accumulates all applicable errors without
\* stopping at the first one, the required-field errors first, then the type
\* errors, then the range errors; the note {id "x", pitch 128, velocity -1,
\* start -5, duration 0} yields exactly the four range errors.
C8_AccumulatesAllInOrder ==
    pc = "validate_note" =>
        /\ ~noteResult.raised
        /\ {noteResult.value[i] : i \in DOMAIN noteResult.value}
               = ExpectedNoteErrors(FieldsOf(note))
        /\ \A i, j \in DOMAIN noteResult.value :
               i < j => /\ ErrorClass(noteResult.value[i]) <= ErrorClass(noteResult.value[j])
                        /\ noteResult.value[i] # noteResult.value[j]
        /\ note = RangeNote =>
               /\ Len(noteResult.value) = 4
               /\ \A f \in CheckedNoteFields : InList(RangeMsg(f), noteResult.value)

\* C8, on the notes whose validation returns: the report is exactly the
\* applicable errors, each once, ordered required-field, type, range.
C8_InOrderWhenReturned ==
    (pc = "validate_note" /\ ~noteResult.raised) =>
        /\ {noteResult.value[i] : i \in DOMAIN noteResult.value}
               = ExpectedNoteErrors(FieldsOf(note))
        /\ \A i, j \in DOMAIN noteResult.value :
               i < j => /\ ErrorClass(noteResult.value[i]) <= ErrorClass(noteResult.value[j])
                        /\ noteResult.value[i] # noteResult.value[j]

\* the note map {"start": 0} of the test: id, duration, pitch and velocity absent
LacksFour(n) ==
    /\ n.k = "dict"
    /\ \A f \in {"id", "duration", "pitch", "velocity"} : ~Has(n, f)
    /\ Has(n, "start") /\ IsNumber(n.v["start"]) /\ Half(n.v["start"]) >= 0

\* C9: a note map lacking exactly id, duration, pitch and velocity (start
\* present and valid) yields exactly 4 errors, one "Required field '<name>' is
\* missing" per absent field; an absent required field contributes exactly one
\* missing-field error and no type or range error for that field, and a field
\* that is present contributes no missing-field error.
C9_AbsentFieldOneMissingError ==
    pc = "validate_note" =>
        /\ LacksFour(note) =>
               /\ ~noteResult.raised
               /\ Len(noteResult.value) = 4
               /\ \A f \in {"id", "duration", "pitch", "velocity"} :
                      Count(MissingMsg(f), noteResult.value) = 1
        /\ \A f \in RequiredNoteFieldSet :
               /\ Count(MissingMsg(f),
                        NoteValidator_validate_required_fields(FieldsOf(note)))
                      = IF Has(FieldsOf(note), f) THEN 0 ELSE 1
               /\ ~Has(FieldsOf(note), f) =>
                      /\ ~InList(TypeMsg(f), NoteValidator_validate_types(FieldsOf(note)))
                      /\ ~InList(RangeMsg(f),
                                 NoteValidator_validate_range(FieldsOf(note)).value)
               /\ ~noteResult.raised =>
                      /\ Count(MissingMsg(f), noteResult.value)
                             = IF Has(FieldsOf(note), f) THEN 0 ELSE 1
                      /\ ~Has(FieldsOf(note), f) =>
                             /\ ~InList(TypeMsg(f), noteResult.value)
                             /\ ~InList(RangeMsg(f), noteResult.value)

C9_Witness ==
    /\ pc = "validate_note"
    /\ LacksFour(note)
    /\ noteResult = Returned(<<MissingMsg("id"), MissingMsg("duration"),
                               MissingMsg("pitch"), MissingMsg("velocity")>>)

---------------------------------------------------------------------------
(* Claims on timeline validation, checked under Spec *)

StartsWith(msg, pre) ==
    Len(msg) >= Len(pre) /\ SubSeq(msg, 1, Len(pre)) = pre

Contains(msg, sub) ==
    \E i \in 1..(Len(msg) - Len(sub) + 1) : SubSeq(msg, i, i + Len(sub) - 1) = sub

\* the fields of a timeline, of a map or of a PianoRollData instance
TimelineFieldsOf(d) == IF d.k = "obj" THEN asdict(d) ELSE d

\* the notes of a timeline whose notes field is a list
NotesOf(d) ==
    IF Has(TimelineFieldsOf(d), "notes") /\ TimelineFieldsOf(d).v["notes"].k = "list"
    THEN TimelineFieldsOf(d).v["notes"].v ELSE <<>>

NotesIsList(d) ==
    Has(TimelineFieldsOf(d), "notes") /\ TimelineFieldsOf(d).v["notes"].k = "list"

TopLevelMissingMsgs ==
    {MissingMsg(PianoRollRequiredFields[i]) : i \in DOMAIN PianoRollRequiredFields}

TimeSignatureMsgs ==
    {"'timeSignature' must be a dictionary",
     "'timeSignature.numerator' must be a positive integer",
     "'timeSignature.denominator' must be a positive integer"}

\* 1 top-level required field, 2 notes, 3 tempo, 4 time signature
ReportClass(msg) ==
    IF msg \in TopLevelMissingMsgs THEN 1
    ELSE IF StartsWith(msg, "Note ") \/ msg = "'notes' must be a list" THEN 2
    ELSE IF msg = "'tempo' must be a positive number" THEN 3
    ELSE IF msg \in TimeSignatureMsgs THEN 4 ELSE 0

\* the 0-based note index an error line is prefixed with
NoteIndexOf(msg) ==
    IF \E k \in 0..MaxNotes : StartsWith(msg, NotePrefix(k))
    THEN CHOOSE k \in 0..MaxNotes : StartsWith(msg, NotePrefix(k)) ELSE -1

ReportOrdered(report) ==
    \A i, j \in DOMAIN report :
        i < j => /\ ReportClass(report[i]) # 0
                 /\ ReportClass(report[i]) <= ReportClass(report[j])
                 /\ NoteIndexOf(report[i]) # -1 /\ NoteIndexOf(report[j]) # -1
                        => NoteIndexOf(report[i]) <= NoteIndexOf(report[j])

\* every error of every note is in the report under that note's index
EveryNoteReported(d, report) ==
    \A k \in DOMAIN NotesOf(d) :
        IsNoteMap(NotesOf(d)[k]) =>
            \A e \in ExpectedNoteErrors(FieldsOf(NotesOf(d)[k])) :
                InList(NotePrefix(k - 1) \o e, report)

\* C10: the error report of timeline validation is ordered: top-level
\* missing-field errors, then the errors of every note in position order,
\* each prefixed "Note {i}: " with i the 0-based index, then the tempo error,
\* then the time-signature errors; every note is validated even after an
\* earlier note failed.
C10_ReportOrderedEveryNote ==
    pc = "validate_piano_roll_data" =>
        /\ ~validation.raised
        /\ ReportOrdered(validation.value.errors)
        /\ EveryNoteReported(data, validation.value.errors)

\* C10, on the timelines whose validation returns.
C10_OrderedWhenReturned ==
    (pc = "validate_piano_roll_data" /\ ~validation.raised) =>
        /\ ReportOrdered(validation.value.errors)
        /\ EveryNoteReported(data, validation.value.errors)

PositiveNumber(x) == IsNumber(x) /\ Half(x) > 0
PositiveInt(x) == IsInt(x) /\ x.v > 0

\* the time signature, a map or a TimeSignatureData instance, has a positive
\* integer numerator and denominator
TimeSignatureOk(d) ==
    /\ Has(TimelineFieldsOf(d), "timeSignature")
    /\ TimelineFieldsOf(d).v["timeSignature"].k \in {"dict", "obj"}
    /\ PositiveInt(TimelineFieldsOf(d).v["timeSignature"].v["numerator"])
    /\ PositiveInt(TimelineFieldsOf(d).v["timeSignature"].v["denominator"])

EveryNoteValidates(d) ==
    \A k \in DOMAIN NotesOf(d) : validate_note(NotesOf(d)[k]) = Returned(<<>>)

\* the conditions the specification lists for a valid timeline
ListedConditions(d) ==
    /\ \A i \in DOMAIN PianoRollRequiredFields :
           Has(TimelineFieldsOf(d), PianoRollRequiredFields[i])
    /\ PositiveNumber(TimelineFieldsOf(d).v["tempo"])
    /\ TimeSignatureOk(d)
    /\ EveryNoteValidates(d)

ReportsNoErrors == ~validation.raised /\ validation.value.errors = <<>>

\* C7 as stated: validation reports no errors exactly when notes, tempo,
\* timeSignature, editMode and snapSetting are present, tempo is a number > 0,
\* the time signature has integer numerator and denominator > 0 and every note
\* validates; is_valid is false exactly when the error list is non-empty.
C7_ValidIffListedConditions ==
    pc = "validate_piano_roll_data" =>
        /\ ReportsNoErrors <=> ListedConditions(data)
        /\ ~validation.raised =>
               (validation.value.is_valid = FALSE <=> validation.value.errors # <<>>)

\* C7 amended: ... exactly when the listed conditions hold and notes is a list.
C7_ValidIffConditionsAndNotesList ==
    pc = "validate_piano_roll_data" =>
        /\ ReportsNoErrors <=> (ListedConditions(data) /\ NotesIsList(data))
        /\ ~validation.raised =>
               (validation.value.is_valid = FALSE <=> validation.value.errors # <<>>)

\* a timeline that meets every condition, with at least one note, was validated
C7_Witness ==
    /\ pc = "validate_piano_roll_data"
    /\ ReportsNoErrors
    /\ Len(NotesOf(data)) >= 1

\* C6: validate_and_warn returns the original data unchanged when validation
\* finds no errors; when there is at least one error it raises no exception,
\* emits one warning that lists all the errors under the caller's context
\* label, and returns an empty timeline instead of the original.
C6_WarnsAndReturnsEmpty ==
    pc = "validate_and_warn" =>
        /\ ~returned.raised
        /\ ListedConditions(data) /\ NotesIsList(data) =>
               returned.value = data /\ warnings = <<>>
        /\ ~(ListedConditions(data) /\ NotesIsList(data)) =>
               /\ returned.value = EmptyDict
               /\ Len(warnings) = 1
               /\ \E ctx \in Contexts :
                      StartsWith(warnings[1].message, ctx \o " validation failed:")
               /\ \A k \in DOMAIN NotesOf(data) :
                      IsNoteMap(NotesOf(data)[k]) =>
                          \A e \in ExpectedNoteErrors(FieldsOf(NotesOf(data)[k])) :
                              Contains(warnings[1].message,
                                       "  - " \o NotePrefix(k - 1) \o e)

\* C6, on the timelines whose validation returns.
C6_WhenValidationReturns ==
    (pc = "validate_and_warn" /\ ~returned.raised) =>
        /\ ListedConditions(data) /\ NotesIsList(data) =>
               returned.value = data /\ warnings = <<>>
        /\ ~(ListedConditions(data) /\ NotesIsList(data)) =>
               /\ returned.value = EmptyDict
               /\ Len(warnings) = 1
               /\ \E ctx \in Contexts :
                      StartsWith(warnings[1].message, ctx \o " validation failed:")
               /\ \A k \in DOMAIN NotesOf(data) :
                      IsNoteMap(NotesOf(data)[k]) =>
                          \A e \in ExpectedNoteErrors(FieldsOf(NotesOf(data)[k])) :
                              Contains(warnings[1].message,
                                       "  - " \o NotePrefix(k - 1) \o e)

---------------------------------------------------------------------------
(* Normalisation: what the specification expects of clean_piano_roll_data *)

CoreSettingFields ==
    {"tempo", "editMode", "snapSetting", "pixelsPerBeat", "sampleRate", "ppqn",
     "timeSignature"}

\* the input read as a map, whichever of the two forms it has
InputMap(d) == IF d.k = "obj" THEN asdict(d) ELSE d

\* the input holds a value for the field: the key is there and is not null
Supplied(d, f) ==
    /\ d.k \in {"dict", "obj"}
    /\ Has(InputMap(d), f)
    /\ InputMap(d).v[f] # None

DocumentedDefault(f) ==
    CASE f = "tempo" -> PyInt(120)
      [] f = "editMode" -> PyStr("select")
      [] f = "snapSetting" -> PyStr("1/4")
      [] f = "pixelsPerBeat" -> PyInt(80)
      [] f = "sampleRate" -> PyInt(44100)
      [] f = "ppqn" -> PyInt(480)
      [] f = "timeSignature" -> TimeSignatureMap(PyInt(4), PyInt(4))

\* the input's value of a setting as it reads after normalisation
SuppliedValue(d, f) ==
    IF f = "timeSignature"
    THEN PyDict([g \in TimeSignatureFields |-> Get(InputMap(d).v[f], g, PyInt(4))])
    ELSE InputMap(d).v[f]

SettingIsValueOrDefault(d, out, f) ==
    /\ out.v[f] \notin {Absent, None}
    /\ out.v[f] = IF Supplied(d, f) THEN SuppliedValue(d, f) ELSE DocumentedDefault(f)

\* C3: after clean_piano_roll_data, for a raw map as for a PianoRollData
\* instance, each of tempo, editMode, snapSetting, pixelsPerBeat, sampleRate,
\* ppqn and timeSignature is the input's value or the documented default
\* (120, "select", "1/4", 80, 44100, 480, 4/4) and none is left unset; the
\* empty map gives notes = [], pixelsPerBeat = 80, sampleRate = 44100, ppqn = 480.
C3_SettingsValueOrDefault ==
    pc = "cleaned" =>
        /\ ~cleaned.raised
        /\ \A f \in CoreSettingFields :
               SettingIsValueOrDefault(data, asdict(cleaned.value), f)
        /\ data = EmptyDict =>
               /\ cleaned.value.v["notes"] = PyList(<<>>)
               /\ cleaned.value.v["pixelsPerBeat"] = PyInt(80)
               /\ cleaned.value.v["sampleRate"] = PyInt(44100)
               /\ cleaned.value.v["ppqn"] = PyInt(480)

\* C3 for the inputs that hold no null setting and are raw maps: there the
\* seven settings are the input's value or the default.
C3_RawMapWithoutNulls ==
    (/\ pc = "cleaned"
     /\ data.k = "dict"
     /\ \A f \in CoreSettingFields : data.v[f] # None) =>
        /\ ~cleaned.raised
        /\ \A f \in CoreSettingFields :
               SettingIsValueOrDefault(data, asdict(cleaned.value), f)

\* C4: clean_piano_roll_data is idempotent: cleaning the cleaned value gives
\* the cleaned value again, field by field, and neither call raises.
C4_CleanIdempotent ==
    /\ pc # "start" => ~cleaned.raised
    /\ pc = "recleaned" =>
           /\ ~recleaned.raised
           /\ \A f \in PianoRollDataFields :
                  recleaned.value.v[f] = cleaned.value.v[f]

C4_Witness ==
    /\ pc = "recleaned"
    /\ data.k = "dict"
    /\ Supplied(data, "line_data")
    /\ Supplied(data, "notes")
    /\ ~Has(data, "pixelsPerBeat")
    /\ cleaned.value.v["pixelsPerBeat"] = PyInt(80)
    /\ recleaned.value = cleaned.value

\* an optional value of the input is found in the output
CarriedThrough(f, in, out) ==
    IF f = "line_data"
    THEN /\ out.k = "dict"
         /\ \A name \in DOMAIN in.v :
                /\ (in.v[name] = Absent) = (out.v[name] = Absent)
                /\ in.v[name] # Absent =>
                       \A g \in LineLayerFields \ {"data"} :
                           in.v[name].v[g] \notin {Absent, None} =>
                               out.v[name].v[g] = in.v[name].v[g]
    ELSE out = in

\* C5: in the output of clean_piano_roll_data each of audio_data, curve_data,
\* segment_data, line_data, use_backend_audio and waveform_data is carried
\* through when the input holds it with a non-null value, and is otherwise
\* omitted entirely, never present as a null placeholder.
C5_OptionalCarriedOrOmitted ==
    pc = "cleaned" =>
        /\ ~cleaned.raised
        /\ \A f \in OptionalFieldSet :
               IF Supplied(data, f)
               THEN CarriedThrough(f, InputMap(data).v[f], asdict(cleaned.value).v[f])
               ELSE ~Has(asdict(cleaned.value), f)

\* C5 without the omission: a supplied optional value is carried through, and
\* one that is not supplied reads None in the result.
C5_CarriedOrNone ==
    pc = "cleaned" =>
        /\ ~cleaned.raised
        /\ \A f \in OptionalFieldSet :
               IF Supplied(data, f)
               THEN CarriedThrough(f, InputMap(data).v[f], asdict(cleaned.value).v[f])
               ELSE cleaned.value.v[f] = None

---------------------------------------------------------------------------
(* The widget: what the specification expects of postprocess *)

\* C2: postprocess does not raise for any boundary payload, a value whose
\* note maps lack pitch, start or duration included: at worst the timeline
\* is reset to the defaults.
C2_PostprocessNeverRaises ==
    pc = "postprocess" => ~posted.raised

\* a payload every note map of which holds numbers for start, duration and
\* pitch, under a tempo and a pixelsPerBeat that are not zero
WellFormedPayload(value) ==
    \/ Falsy(value)
    \/ /\ value.k = "dict"
       /\ Get(value, "tempo", PyInt(120)) # PyInt(0)
       /\ Get(value, "pixelsPerBeat", PyInt(80)) # PyInt(0)
       /\ Get(value, "notes", None).k \in {"none", "list"}
       /\ Has(value, "notes") /\ value.v["notes"].k = "list" =>
              \A i \in DOMAIN value.v["notes"].v :
                  \A f \in {"start", "duration", "pitch"} :
                      /\ Has(value.v["notes"].v[i], f)
                      /\ IsNumber(value.v["notes"].v[i].v[f])

\* C2 for well-formed payloads: there postprocess returns.
C2_ReturnsForWellFormedPayload ==
    (pc = "postprocess" /\ WellFormedPayload(data)) => ~posted.raised

---------------------------------------------------------------------------
(* Validation is read-only *)

---------------------------------------------------------------------------
(* Decoding: what the specification expects of PianoRollData.from_dict *)

\* the value a field of a decoded timeline takes when the map lacks the key
DecodeDefault(f) ==
    CASE f = "notes" -> PyList(<<>>)
      [] f = "tempo" -> PyInt(120)
      [] f = "editMode" -> PyStr("select")
      [] f = "snapSetting" -> PyStr("1/4")
      [] f = "timeSignature" -> AsObj(TimeSignatureMap(PyInt(4), PyInt(4)))
      [] OTHER -> None

\* a note as NoteData: the instance itself, or the instance holding the
\* map's values, None where the map has no value
CoercedNote(n, out) ==
    /\ out.k = "obj"
    /\ DOMAIN out.v = NoteDataFields
    /\ IF n.k = "obj" THEN out = n
       ELSE \A g \in NoteDataFields :
                out.v[g] = IF Has(n, g) THEN n.v[g] ELSE None

\* C12: PianoRollData.from_dict never raises when fields are missing from the
\* boundary map: every absent field takes its default (tempo 120, editMode
\* "select", snapSetting "1/4", timeSignature 4/4, notes empty, optional
\* fields unset), and the notes given as plain maps are coerced to NoteData
\* instances in the same order.
C12_FromDictDefaults ==
    pc = "from_dict" =>
        /\ ~decoded.raised
        /\ decoded.value.k = "obj"
        /\ \A f \in PianoRollDataFields :
               ~Has(data, f) => decoded.value.v[f] = DecodeDefault(f)
        /\ Has(data, "notes") =>
               /\ Len(decoded.value.v["notes"].v) = Len(data.v["notes"].v)
               /\ \A i \in DOMAIN data.v["notes"].v :
                      CoercedNote(data.v["notes"].v[i], decoded.value.v["notes"].v[i])

C12_Witness ==
    /\ pc = "from_dict"
    /\ ~decoded.raised
    /\ ~Has(data, "tempo")
    /\ ~Has(data, "timeSignature")
    /\ Has(data, "notes")
    /\ Len(data.v["notes"].v) = MaxNotes
    /\ data.v["notes"].v[1].k = "dict"
    /\ decoded.value.v["notes"].v[1] # decoded.value.v["notes"].v[MaxNotes]
    /\ decoded.value.v["tempo"] = PyInt(120)

---------------------------------------------------------------------------
(* Ids: what the specification expects of ensure_note_ids *)

\* the notes of a timeline in either form, the empty sequence when it has none
TimelineNotes(d) ==
    IF d.k \in {"dict", "obj"} /\ d.v["notes"].k = "list" THEN d.v["notes"].v ELSE <<>>

\* the id of a note in either form, None when there is none
IdOf(n) == IF n.v["id"] = Absent THEN None ELSE n.v["id"]

HasNonEmptyId(n) == IdOf(n) \notin {None, PyStr("")}

\* what ensure_note_ids may change between the timeline before and after
EnsureEffect(before, after) ==
    /\ after.k = before.k
    /\ before.k \in {"dict", "obj"} =>
           \A f \in PianoRollDataFields \ {"notes"} : after.v[f] = before.v[f]
    /\ TimelineNotes(before) = <<>> => after = before
    /\ Len(TimelineNotes(after)) = Len(TimelineNotes(before))
    /\ \A i \in DOMAIN TimelineNotes(before) :
           /\ TimelineNotes(after)[i].k = TimelineNotes(before)[i].k
           /\ \A g \in NoteDataFields \ {"id"} :
                  TimelineNotes(after)[i].v[g] = TimelineNotes(before)[i].v[g]
           /\ IF HasNonEmptyId(TimelineNotes(before)[i])
              THEN TimelineNotes(after)[i].v["id"] = TimelineNotes(before)[i].v["id"]
              ELSE TimelineNotes(after)[i].v["id"] \in GeneratedIds
           /\ HasNonEmptyId(TimelineNotes(after)[i])

\* C13: ensure_note_ids gives a generated id to every note whose id is absent
\* or empty, leaves every existing non-empty id as it is, alters no other
\* field of a note or of the timeline, keeps the notes in their order, and
\* afterwards every note of the timeline has a non-empty id.
C13_EnsureNoteIdsEffect ==
    [][pc' = "ensure_note_ids" =>
           /\ ~ensured'.raised
           /\ ensured'.value = data'
           /\ EnsureEffect(data, data')]_vars

C13_Witness ==
    /\ pc = "ensure_note_ids"
    /\ ~ensured.raised
    /\ Len(TimelineNotes(data)) = MaxNotes
    /\ data.v["notes"].v[1].v["id"] = PyStr("n1")
    /\ data.v["notes"].v[MaxNotes].v["id"] \in GeneratedIds
    /\ data.v["notes"].v[MaxNotes].v["pitch"] = PyInt(64)
    /\ data.v["notes"].v[MaxNotes].v["velocity"] = PyInt(80)

---------------------------------------------------------------------------
(* Ids: what the specification expects of generate_note_id *)

\* the indices of the notes of the timeline that hold a generated id
AssignedNotes(d) ==
    {i \in DOMAIN TimelineNotes(d) : TimelineNotes(d)[i].v["id"] \in GeneratedIds}

---------------------------------------------------------------------------
(* The backend data object *)

\* the curves stored in the backend data object
StoredCurves(b) == {name \in DOMAIN b.curve_data.v : b.curve_data.v[name] # Absent}

\* C15: after any sequence of set_audio, add_curve, remove_curve, add_segment,
\* clear_segments and enable_backend_audio, has_data() is true exactly when
\* audio_data is set or the curve map is non-empty or the segment list is
\* non-empty; the use_backend_audio flag never influences the result, so with
\* only that flag enabled has_data() is false.
C15_HasDataIffPayload ==
    /\ has_data(backend_data) <=>
           (\/ backend_data.audio_data.k # "none"
            \/ StoredCurves(backend_data) # {}
            \/ Len(backend_data.segment_data.v) > 0)
    /\ \A flag \in BOOLEAN :
           has_data([backend_data EXCEPT !.use_backend_audio = PyBool(flag)])
               = has_data(backend_data)
    /\ (/\ backend_data.use_backend_audio = PyBool(TRUE)
        /\ backend_data.audio_data = None
        /\ StoredCurves(backend_data) = {}
        /\ backend_data.segment_data.v = <<>>) => ~has_data(backend_data)

C15_Witness ==
    /\ backend_data.use_backend_audio = PyBool(TRUE)
    /\ backend_data.audio_data = None
    /\ StoredCurves(backend_data) = {}
    /\ backend_data.segment_data.v = <<>>
    /\ ~has_data(backend_data)
    /\ pc = "start"

---------------------------------------------------------------------------
(* The widget: normalisation and merge in postprocess *)

\* the four keys of the output equal the backend object's current values
BackendMerged(out, b) ==
    /\ out.v["audio_data"] = b.audio_data
    /\ out.v["curve_data"] = b.curve_data
    /\ out.v["segment_data"] = b.segment_data
    /\ out.v["use_backend_audio"] = b.use_backend_audio

\* C16: postprocess returns the caller's value normalised as by
\* clean_piano_roll_data, with the default filled in for every required
\* setting, and then merged with the backend data: whenever the backend object
\* holds audio, curve or segment data, the output's audio_data, curve_data,
\* segment_data and use_backend_audio equal the backend object's values.
C16_NormalizedThenMerged ==
    (pc = "postprocess" /\ ~posted.raised) =>
        /\ \A f \in CoreSettingFields :
               /\ Has(posted.value, f)
               /\ posted.value.v[f] =
                      IF Supplied(data, f) THEN data.v[f] ELSE DocumentedDefault(f)
        /\ has_data(backend_data) => BackendMerged(posted.value, backend_data)

\* C16 without the defaults: when postprocess returns, the four backend keys
\* of the output are the backend object's values if it holds data and the
\* caller's own otherwise, and a setting the caller did not give stays absent
\* unless the whole value was empty.
C16_MergedWhenReturned ==
    (pc = "postprocess" /\ ~posted.raised) =>
        /\ has_data(backend_data) => BackendMerged(posted.value, backend_data)
        /\ (~has_data(backend_data) /\ ~Falsy(data)) =>
               \A f \in BackendFields : posted.value.v[f] = data.v[f]
        /\ ~Falsy(data) =>
               \A f \in CoreSettingFields : posted.value.v[f] = data.v[f]

---------------------------------------------------------------------------
(* A Note under edit: derived timing values *)

\* the conversion of a start and a duration in pixels under a context
FreshTiming(start, duration, ctx, f) ==
    CASE f = "startFlicks" ->
           PyRatio(pixels_to_flicks(ToFrac(start), ToFrac(ctx.pixels_per_beat), ToFrac(ctx.tempo)))
      [] f = "durationFlicks" ->
           PyRatio(pixels_to_flicks(ToFrac(duration), ToFrac(ctx.pixels_per_beat), ToFrac(ctx.tempo)))
      [] f = "startSeconds" ->
           PyRatio(pixels_to_seconds(ToFrac(start), ToFrac(ctx.pixels_per_beat), ToFrac(ctx.tempo)))
      [] f = "durationSeconds" ->
           PyRatio(pixels_to_seconds(ToFrac(duration), ToFrac(ctx.pixels_per_beat), ToFrac(ctx.tempo)))
      [] f = "endSeconds" ->
           PyRatio(FracAdd(
               pixels_to_seconds(ToFrac(start), ToFrac(ctx.pixels_per_beat), ToFrac(ctx.tempo)),
               pixels_to_seconds(ToFrac(duration), ToFrac(ctx.pixels_per_beat), ToFrac(ctx.tempo))))
      [] f = "startBeats" ->
           PyRatio(pixels_to_beats(ToFrac(start), ToFrac(ctx.pixels_per_beat)))
      [] f = "durationBeats" ->
           PyRatio(pixels_to_beats(ToFrac(duration), ToFrac(ctx.pixels_per_beat)))
      [] f = "startTicks" ->
           PyInt(pixels_to_ticks(ToFrac(start), ToFrac(ctx.pixels_per_beat), ToFrac(ctx.ppqn)))
      [] f = "durationTicks" ->
           PyInt(pixels_to_ticks(ToFrac(duration), ToFrac(ctx.pixels_per_beat), ToFrac(ctx.ppqn)))
      [] f = "startSample" ->
           PyInt(pixels_to_samples(ToFrac(start), ToFrac(ctx.pixels_per_beat),
                                   ToFrac(ctx.tempo), ToFrac(ctx.sample_rate)))
      [] f = "durationSamples" ->
           PyInt(pixels_to_samples(ToFrac(duration), ToFrac(ctx.pixels_per_beat),
                                   ToFrac(ctx.tempo), ToFrac(ctx.sample_rate)))

\* the context a Note holds
ContextOf(n) == [f \in ContextFields |-> n.v[f]]

\* C17: after any sequence of move_to, resize, transpose and update_context,
\* every derived timing value of the Note, read through its properties or
\* through to_dict, is the conversion of its current start and duration pixels
\* under its current context, and endSeconds is startSeconds + durationSeconds.
C17_DerivedNeverStale ==
    /\ \A f \in TimingFields :
           TimingOf(noteObj, f) =
               FreshTiming(noteObj.v["start_pixels"], noteObj.v["duration_pixels"],
                           ContextOf(noteObj), f)
    /\ pc = "to_dict" =>
           /\ ~record.raised
           /\ record.value.v["start"] = noteObj.v["start_pixels"]
           /\ record.value.v["duration"] = noteObj.v["duration_pixels"]
           /\ \A f \in TimingFields :
                  record.value.v[f] =
                      FreshTiming(noteObj.v["start_pixels"], noteObj.v["duration_pixels"],
                                  ContextOf(noteObj), f)
           /\ record.value.v["endSeconds"].v =
                  FracAdd(record.value.v["startSeconds"].v,
                          record.value.v["durationSeconds"].v)

C17_Witness ==
    /\ pc = "to_dict"
    /\ noteObj.v["tempo"] = PyInt(60)
    /\ noteObj.v["pixels_per_beat"] = PyInt(40)
    /\ noteObj.v["start_pixels"] = PyInt(80)
    /\ noteObj.v["duration_pixels"] = PyInt(40)
    /\ noteObj.v["pitch"] = PyInt(127)
    /\ record.value.v["startSeconds"] = PyRatio(<<2, 1>>)
    /\ record.value.v["endSeconds"] = PyRatio(<<3, 1>>)
    /\ record.value.v["durationTicks"] = PyInt(noteObj.v["ppqn"].v)

---------------------------------------------------------------------------
(* Note round trip *)

\* the non-derived fields of a note record, and the attribute of Note each
\* one is written from
NonDerivedKeys == {"id", "start", "duration", "pitch", "velocity", "lyric", "phoneme"}

AttributeOfKey(key) ==
    CASE key = "start" -> "start_pixels"
      [] key = "duration" -> "duration_pixels"
      [] OTHER -> key

\* getattr(n, name, <absent>)
Attribute(n, name) == IF name \in DOMAIN n.v THEN n.v[name] ELSE Absent

\* C18: from_dict(to_dict(n), ctx) equals n on every non-derived field (id,
\* start and duration pixels, pitch, velocity, lyric, phoneme), and its derived
\* timing fields are the fresh conversion of those pixel values under ctx.
C18_RoundTrip ==
    pc = "from_dict" =>
        /\ ~rebuilt.raised
        /\ \A key \in NonDerivedKeys :
               /\ Attribute(noteObj, AttributeOfKey(key)) # Absent
               /\ Attribute(rebuilt.value, AttributeOfKey(key)) =
                      Attribute(noteObj, AttributeOfKey(key))
        /\ \A f \in TimingFields :
               TimingOf(rebuilt.value, f) =
                   FreshTiming(noteObj.v["start_pixels"], noteObj.v["duration_pixels"],
                               context, f)

\* what does hold: the round trip keeps the six attributes a Note has, takes
\* the context it is given, and neither the note nor its record has a phoneme
C18_RoundTripOnNoteFields ==
    pc = "from_dict" =>
        /\ ~rebuilt.raised
        /\ \A key \in NonDerivedKeys \ {"phoneme"} :
               rebuilt.value.v[AttributeOfKey(key)] = noteObj.v[AttributeOfKey(key)]
        /\ ContextOf(rebuilt.value) = context
        /\ \A f \in TimingFields :
               TimingOf(rebuilt.value, f) =
                   FreshTiming(noteObj.v["start_pixels"], noteObj.v["duration_pixels"],
                               context, f)
        /\ ~Has(record.value, "phoneme")
        /\ Attribute(rebuilt.value, "phoneme") = Absent

---------------------------------------------------------------------------
(* Note records from the boundary *)

\* the record carries an id of its own
CarriesId(r) == Has(r, "id") /\ r.v["id"] # None

\* C19: two records that differ only in derived timing fields decode under
\* the same context to notes whose to_dict outputs are identical.
C19_IdenticalOutputs ==
    pc = "to_dict" => record = twinRecord

\* C19 as it holds: the outputs agree on every field but a generated id, agree
\* on the id too when the records carry one, and their derived values are the
\* conversion of the record's start and duration under the context.
C19_DerivedDiscarded ==
    pc = "to_dict" =>
        /\ record.raised = twinRecord.raised
        /\ record.exc = twinRecord.exc
        /\ ~record.raised =>
               /\ \A f \in NoteDataFields \ {"id"} :
                      record.value.v[f] = twinRecord.value.v[f]
               /\ \A f \in TimingFields :
                      record.value.v[f] =
                          FreshTiming(note.v["start"], note.v["duration"], context, f)
               /\ CarriesId(note) => record = twinRecord
               /\ ~CarriesId(note) =>
                      /\ record.value.v["id"] \in GeneratedIds
                      /\ twinRecord.value.v["id"] \in GeneratedIds

C19_Witness ==
    /\ pc = "to_dict"
    /\ note.v["startSeconds"] = PyInt(99)
    /\ twin.v["startSeconds"] = Absent
    /\ note.v["id"] = PyStr("n1")
    /\ context = DefaultContext
    /\ ~record.raised
    /\ record.value.v["startSeconds"] = PyRatio(<<1, 2>>)
    /\ record.value.v["durationTicks"] = PyInt(240)
    /\ record = twinRecord

\* C20: Note.from_dict raises a lookup error when start, duration or pitch is
\* absent from the record and otherwise returns: an absent velocity reads 100,
\* an absent lyric the empty string, an absent id a generated one.
C20_FromDictErrorsAndDefaults ==
    pc = "from_dict" =>
        IF \E f \in {"start", "duration", "pitch"} : ~Has(note, f)
        THEN rebuilt.raised /\ rebuilt.exc = "KeyError"
        ELSE /\ ~rebuilt.raised
             /\ rebuilt.value.v["start_pixels"] = note.v["start"]
             /\ rebuilt.value.v["duration_pixels"] = note.v["duration"]
             /\ rebuilt.value.v["pitch"] = note.v["pitch"]
             /\ rebuilt.value.v["velocity"] =
                    (IF Has(note, "velocity") THEN note.v["velocity"] ELSE PyInt(100))
             /\ rebuilt.value.v["lyric"] =
                    (IF Has(note, "lyric") THEN note.v["lyric"] ELSE PyStr(""))
             /\ rebuilt.value.v["id"] =
                    (IF CarriesId(note) THEN note.v["id"] ELSE rebuilt.value.v["id"])
             /\ ~CarriesId(note) => rebuilt.value.v["id"] \in GeneratedIds

C20_Witness ==
    /\ pc = "from_dict"
    /\ ~Has(note, "id")
    /\ ~Has(note, "velocity")
    /\ ~Has(note, "lyric")
    /\ note.v["start"] = PyStr("x")
    /\ ~rebuilt.raised
    /\ rebuilt.value.v["id"] = generate_note_id(2, "bbbbb")
    /\ rebuilt.value.v["velocity"] = PyInt(100)
    /\ rebuilt.value.v["lyric"] = PyStr("")

---------------------------------------------------------------------------
(* Note mutators *)

Clamp(x, lo, hi) == IF x < lo THEN lo ELSE IF x > hi THEN hi ELSE x

\* C21: transpose(d) sets the pitch to clamp(pitch + d, 0, 127), so a pitch
\* that starts in 0..127 is in 0..127 after any sequence of transpose calls.
C21_TransposeClamps ==
    /\ [](noteObj.v["pitch"].k = "int" /\ noteObj.v["pitch"].v \in 0..127)
    /\ [][pc' = "transpose" =>
              noteObj'.v["pitch"] = PyInt(Clamp(noteObj.v["pitch"].v + args'[1], 0, 127))]_vars

C21_Witness ==
    /\ pc = "transpose"
    /\ args = <<100>>
    /\ quantity = None
    /\ timing = NotRun
    /\ single = NotRun
    /\ retimed = NotRun
    /\ calls = <<>>
    /\ pianoRoll = None
    /\ previousNotes = None
    /\ noteObj.v["pitch"] = PyInt(127)

StartDerived == {"startFlicks", "startSeconds", "startBeats", "startTicks", "startSample"}

DurationDerived == {"durationFlicks", "durationSeconds", "durationBeats", "durationTicks", "durationSamples"}

\* the parameters of update_context, in the order they are passed
ContextParameters == <<"pixels_per_beat", "tempo", "sample_rate", "ppqn">>

\* C22: move_to replaces only the start pixel value (the duration and its
\* derived values stay), resize replaces only the duration pixel value (the
\* start and its derived values stay), and update_context replaces exactly the
\* context parameters passed and touches nothing else.
C22_MutatorFrames ==
    [][/\ pc' = "move_to" =>
              /\ noteObj'.v["start_pixels"] = args'[1]
              /\ \A f \in NoteFields \ {"start_pixels"} : noteObj'.v[f] = noteObj.v[f]
              /\ \A f \in DurationDerived : TimingOf(noteObj', f) = TimingOf(noteObj, f)
       /\ pc' = "resize" =>
              /\ noteObj'.v["duration_pixels"] = args'[1]
              /\ \A f \in NoteFields \ {"duration_pixels"} : noteObj'.v[f] = noteObj.v[f]
              /\ \A f \in StartDerived : TimingOf(noteObj', f) = TimingOf(noteObj, f)
       /\ pc' = "update_context" =>
              /\ \A i \in 1..4 :
                     noteObj'.v[ContextParameters[i]] =
                         (IF args'[i] # None THEN args'[i]
                          ELSE noteObj.v[ContextParameters[i]])
              /\ \A f \in NoteFields \ ContextFields : noteObj'.v[f] = noteObj.v[f]]_vars

C22_Witness ==
    /\ pc = "update_context"
    /\ args = <<None, PyInt(60), None, None>>
    /\ quantity = None
    /\ timing = NotRun
    /\ single = NotRun
    /\ retimed = NotRun
    /\ calls = <<>>
    /\ pianoRoll = None
    /\ previousNotes = None
    /\ noteObj.v["pixels_per_beat"] = PyInt(40)
    /\ noteObj.v["tempo"] = PyInt(60)
    /\ noteObj.v["ppqn"] = PyInt(480)
    /\ noteObj.v["start_pixels"] = PyFloat(81)
    /\ noteObj.v["pitch"] = PyInt(0)

---------------------------------------------------------------------------
(* Timing conversions *)

TruncatedTowardZero(t, q) ==
    IF q[1] >= 0
    THEN t * q[2] <= q[1] /\ q[1] < (t + 1) * q[2]
    ELSE t * q[2] >= q[1] /\ q[1] > (t - 1) * q[2]

\* beats * ppqn with beats = pixels / pixelsPerBeat
ExactTicks(pixels, ctx) ==
    FracMul(FracDiv(ToFrac(pixels), ToFrac(ctx.pixels_per_beat)), ToFrac(ctx.ppqn))

\* seconds * sampleRate with seconds = pixels * 60 / (pixelsPerBeat * tempo)
ExactSamples(pixels, ctx) ==
    FracMul(FracDiv(FracMul(ToFrac(pixels), <<60, 1>>),
                    FracMul(ToFrac(ctx.pixels_per_beat), ToFrac(ctx.tempo))),
            ToFrac(ctx.sample_rate))

\* C24: pixels_to_ticks is beats * ppqn and pixels_to_samples is seconds *
\* sampleRate with the fractional part cut off toward zero, never rounded:
\* 80 pixels at 80 per beat are 480 ticks, 40 pixels 240 ticks, 80 pixels at
\* tempo 120 are 22050 samples, and 0 pixels are 0 in every unit.
C24_TicksAndSamplesTruncate ==
    /\ single["ticks"] # NotRun =>
           /\ single["ticks"].value.k = "int"
           /\ TruncatedTowardZero(single["ticks"].value.v, ExactTicks(quantity, context))
    /\ single["samples"] # NotRun =>
           /\ single["samples"].value.k = "int"
           /\ TruncatedTowardZero(single["samples"].value.v, ExactSamples(quantity, context))
    /\ quantity = PyInt(80) /\ context = DefaultContext =>
           /\ single["ticks"] # NotRun => single["ticks"].value = PyInt(480)
           /\ single["samples"] # NotRun => single["samples"].value = PyInt(22050)
    /\ quantity = PyInt(40) /\ context = DefaultContext /\ single["ticks"] # NotRun =>
           single["ticks"].value = PyInt(240)
    /\ quantity = PyInt(0) =>
           \A key \in TimingKeys :
               single[key] # NotRun => ToFrac(single[key].value) = <<0, 1>>

C24_Witness ==
    /\ quantity = PyInt(81)
    /\ context.pixels_per_beat = PyInt(50)
    /\ single["ticks"] # NotRun
    /\ single["samples"] # NotRun
    /\ ExactTicks(quantity, context) = <<3888, 5>>
    /\ single["ticks"].value = PyInt(777)
    /\ single["samples"].value = PyInt(47628)

\* C25: for a fixed pixel quantity and pixelsPerBeat and two positive tempos,
\* pixels_to_flicks under tempo1 divided by pixels_to_flicks under tempo2 is
\* tempo2 / tempo1: the flicks are inversely proportional to the tempo.
C25_FlicksInverseToTempo ==
    single["flicks"] # NotRun /\ retimed # NotRun =>
        /\ retimed.value.v =
               FracMul(single["flicks"].value.v, FracDiv(ToFrac(context.tempo), ToFrac(args[1])))
        /\ retimed.value.v[1] # 0 =>
               FracDiv(single["flicks"].value.v, retimed.value.v) =
                   FracDiv(ToFrac(args[1]), ToFrac(context.tempo))

C25_Witness ==
    /\ quantity = PyInt(80)
    /\ context = DefaultContext
    /\ single["flicks"] # NotRun
    /\ retimed # NotRun
    /\ args = <<PyInt(60)>>
    /\ single["flicks"].value = PyRatio(<<352800000, 1>>)
    /\ retimed.value = PyRatio(<<705600000, 1>>)

---------------------------------------------------------------------------
(* The backend data object *)

\* the value of the most recent add_curve of the name that no remove_curve of
\* the name followed, Absent when there is none
RECURSIVE LastCurve(_, _)
LastCurve(log, name) ==
    IF log = <<>> THEN Absent
    ELSE IF log[Len(log)].op = "add_curve" /\ log[Len(log)].name = name
    THEN log[Len(log)].value
    ELSE IF log[Len(log)].op = "remove_curve" /\ log[Len(log)].name = name
    THEN Absent
    ELSE LastCurve(SubSeq(log, 1, Len(log) - 1), name)

\* C26: after any sequence of add_curve and remove_curve calls the curve map
\* holds for each name the value of the most recent add_curve of it that was
\* not followed by a remove_curve of it; a re-add replaces the entry wholesale,
\* removing an absent name changes nothing, and other names are unaffected.
C26_CurveMapIsLastAdd ==
    /\ [](\A name \in BackendCurveNames :
              backend_data.curve_data.v[name] = LastCurve(calls, name))
    /\ [][/\ pc' \in {"add_curve", "remove_curve"} =>
                 /\ \A f \in BackendFields \ {"curve_data"} : backend_data'[f] = backend_data[f]
                 /\ \A name \in BackendCurveNames \ {calls'[Len(calls')].name} :
                        backend_data'.curve_data.v[name] = backend_data.curve_data.v[name]
          /\ pc' = "remove_curve" /\ ~Has(backend_data.curve_data, calls'[Len(calls')].name) =>
                 backend_data' = backend_data]_vars

C26_Witness ==
    /\ Len(calls) = 3
    /\ calls[1].op = "add_curve" /\ calls[1].name = "pitch"
    /\ calls[2].op = "add_curve" /\ calls[2].name = "pitch" /\ calls[2].value # calls[1].value
    /\ calls[3].op = "remove_curve" /\ calls[3].name = "loudness"
    /\ backend_data.curve_data.v["pitch"] = calls[2].value
    /\ backend_data.curve_data.v["loudness"] = Absent

\* the segments passed to add_segment since the last clear_segments, in order
RECURSIVE SegmentsSinceClear(_)
SegmentsSinceClear(log) ==
    IF log = <<>> \/ log[Len(log)].op = "clear_segments" THEN <<>>
    ELSE IF log[Len(log)].op = "add_segment"
    THEN Append(SegmentsSinceClear(SubSeq(log, 1, Len(log) - 1)), log[Len(log)].value)
    ELSE SegmentsSinceClear(SubSeq(log, 1, Len(log) - 1))

\* C27: segment_data is the sequence of segments passed to add_segment since
\* the last clear_segments, in call order and with duplicates kept;
\* clear_segments empties it and changes neither audio_data, curve_data nor
\* use_backend_audio.
C27_SegmentsSinceClear ==
    /\ [](backend_data.segment_data = PyList(SegmentsSinceClear(calls)))
    /\ [][pc' = "clear_segments" =>
              /\ backend_data'.segment_data = PyList(<<>>)
              /\ \A f \in BackendFields \ {"segment_data"} : backend_data'[f] = backend_data[f]]_vars

C27_Witness ==
    /\ Len(calls) = 3
    /\ calls[1].op = "clear_segments"
    /\ calls[2].op = "add_segment"
    /\ calls[3].op = "add_segment" /\ calls[3].value = calls[2].value
    /\ backend_data.segment_data = PyList(<<calls[2].value, calls[2].value>>)

---------------------------------------------------------------------------
(* The widget's notes *)

\* the notes of the widget's value, as a sequence
WidgetNoteList == Get(pianoRoll.value, "notes", PyList(<<>>)).v

PreviousNoteList == IF previousNotes = Absent THEN <<>> ELSE previousNotes.v

\* the notes of a sequence that do not carry the id, in order
RECURSIVE WithoutId(_, _)
WithoutId(ns, id) ==
    IF ns = <<>> THEN <<>>
    ELSE IF Has(Head(ns), "id") /\ Head(ns).v["id"] = id THEN WithoutId(Tail(ns), id)
    ELSE <<Head(ns)>> \o WithoutId(Tail(ns), id)

\* add_note appends one note record built from its arguments and returns its
\* id; remove_note removes every note carrying the id and returns whether one
\* was removed
AddRemoveEffect ==
    /\ pc = "add_note" =>
           /\ ~returned.raised
           /\ Len(WidgetNoteList) = Len(PreviousNoteList) + 1
           /\ SubSeq(WidgetNoteList, 1, Len(PreviousNoteList)) = PreviousNoteList
           /\ WidgetNoteList[Len(WidgetNoteList)].v["id"] = returned.value
           /\ WidgetNoteList[Len(WidgetNoteList)].v["pitch"] = args[1]
           /\ WidgetNoteList[Len(WidgetNoteList)].v["start"] = args[2]
           /\ WidgetNoteList[Len(WidgetNoteList)].v["duration"] = args[3]
           /\ WidgetNoteList[Len(WidgetNoteList)].v["velocity"] = args[4]
           /\ WidgetNoteList[Len(WidgetNoteList)].v["lyric"] = args[5]
    /\ pc = "remove_note" =>
           /\ ~returned.raised
           /\ WidgetNoteList = WithoutId(PreviousNoteList, args[1])
           /\ returned.value = PyBool(\E i \in DOMAIN PreviousNoteList :
                                          PreviousNoteList[i].v["id"] = args[1])
           /\ returned.value = PyBool(FALSE) => WidgetNoteList = PreviousNoteList

---------------------------------------------------------------------------
(* The widget: the backend keys of the output of postprocess *)

\* C29: when the backend object has only use_backend_audio enabled (no audio,
\* no curves, no segments), postprocess attaches none of the four backend
\* keys, so the flag does not reach the output; when the backend object holds
\* data, all four keys overwrite the same-named keys of the caller's value,
\* a null audio_data included.
C29_BackendKeysAttachedOnlyWithData ==
    (pc = "postprocess" /\ ~posted.raised) =>
        /\ ~has_data(backend_data) =>
               \A f \in BackendFields :
                   posted.value.v[f] = (IF Falsy(data) THEN Absent ELSE data.v[f])
        /\ has_data(backend_data) =>
               \A f \in BackendFields : posted.value.v[f] = backend_data[f]

C29_Witness ==
    /\ pc = "postprocess"
    /\ ~posted.raised
    /\ backend_data.use_backend_audio = PyBool(TRUE)
    /\ ~has_data(backend_data)
    /\ data # None
    /\ data.v["audio_data"] = PyStr("stale")
    /\ posted.value.v["audio_data"] = PyStr("stale")
    /\ ~Has(posted.value, "use_backend_audio")

\* the other half of C29, as a reachable state: a backend object holding a
\* curve and no audio overwrites the caller's audio_data with null
C29_NullOverwrite ==
    /\ pc = "postprocess"
    /\ ~posted.raised
    /\ backend_data.audio_data = None
    /\ has_data(backend_data)
    /\ data # None
    /\ data.v["audio_data"] = PyStr("stale")
    /\ posted.value.v["audio_data"] = None

---------------------------------------------------------------------------
(* The boundary pipeline: validate_and_warn on a boundary map, then
   clean_piano_roll_data on what it returned, then PianoRollValidator.validate
   on the cleaned timeline *)

InitBoundary ==
    /\ pc = "start"
    /\ note = ValidNote
    /\ noteResult = NotRun
    /\ data \in ValidationMaps
    /\ validation = NotRun
    /\ returned = NotRun
    /\ warnings = <<>>
    /\ cleaned = NotRun
    /\ recleaned = NotRun
    /\ backend_data = PianoRollBackendData
    /\ posted = NotRun
    /\ decoded = NotRun
    /\ ensured = NotRun
    /\ clock = 1
    /\ generatedIds = <<>>
    /\ noteObj = None
    /\ record = NotRun
    /\ context = None
    /\ rebuilt = NotRun
    /\ twin = None
    /\ rebuiltTwin = NotRun
    /\ twinRecord = NotRun
    /\ args = <<>>
    /\ quantity = None
    /\ timing = NotRun
    /\ single = NotRun
    /\ retimed = NotRun
    /\ calls = <<>>
    /\ pianoRoll = None
    /\ previousNotes = None

\* clean_piano_roll_data(validate_and_warn(x))
CleanReturned ==
    /\ pc = "validate_and_warn"
    /\ ~returned.raised
    /\ cleaned' = clean_piano_roll_data(returned.value)
    /\ pc' = "clean_piano_roll_data"
    /\ UNCHANGED <<note, noteResult, data, validation, returned, warnings, recleaned, backend_data, posted, decoded, ensured, clock, generatedIds, noteObj, record, context, rebuilt, twin, rebuiltTwin, twinRecord, args, quantity, timing, single, retimed, calls, pianoRoll, previousNotes>>

\* PianoRollValidator.validate on the cleaned timeline
ValidateCleaned ==
    /\ pc = "clean_piano_roll_data"
    /\ ~cleaned.raised
    /\ validation' = PianoRollValidator_validate(cleaned.value)
    /\ pc' = "validate_cleaned"
    /\ UNCHANGED <<note, noteResult, data, returned, warnings, cleaned, recleaned, backend_data, posted, decoded, ensured, clock, generatedIds, noteObj, record, context, rebuilt, twin, rebuiltTwin, twinRecord, args, quantity, timing, single, retimed, calls, pianoRoll, previousNotes>>

NextBoundary == ValidateAndWarn \/ CleanReturned \/ ValidateCleaned

SpecBoundary == InitBoundary /\ [][NextBoundary]_vars

\* C30, as stated: for every boundary map x, validate_and_warn(x) returns,
\* clean_piano_roll_data of what it returned returns, and the cleaned timeline
\* passes validation with zero errors.
C30_CleanedPassesValidation ==
    /\ pc = "validate_and_warn" => ~returned.raised
    /\ pc = "clean_piano_roll_data" => ~cleaned.raised
    /\ pc = "validate_cleaned" =>
         /\ ~validation.raised
         /\ validation.value.errors = <<>>

\* whenever validate_and_warn returns, the cleaned result passes validation
\* with zero errors: either x itself came back and its cleaned form is valid,
\* or the empty map came back and the cleaned form is the default timeline
C30_CleanedPassesValidationWhenReturned ==
    /\ pc = "clean_piano_roll_data" =>
         /\ ~cleaned.raised
         /\ returned.value = EmptyDict =>
              cleaned.value = create_default_piano_roll_data
    /\ pc = "validate_cleaned" =>
         /\ ~validation.raised
         /\ validation.value.errors = <<>>

\* a valid map with a note came back unchanged and its cleaned form was
\* validated
C30_ValidKept ==
    /\ pc = "validate_cleaned"
    /\ returned.value = data
    /\ Len(cleaned.value.v["notes"].v) >= 1

\* an invalid map was replaced by the empty map and the default timeline
\* was validated
C30_InvalidReplaced ==
    /\ pc = "validate_cleaned"
    /\ data # EmptyDict
    /\ returned.value = EmptyDict

===========================================================================
